---- MODULE Spec2Model ----
(***************************************************************************)
(* Verification development for the formula canonicalisation layer of     *)
(* carl: the interning pool (AstPool.tpp / FormulaPool.h), its n-ary      *)
(* connective constructor and the id allocator.                           *)
(*                                                                         *)
(* Nodes live in a heap of addresses; a pointer is an address, and the id  *)
(* of a node is a field that the pool assigns at publication.             *)
(*                                                                         *)
(* Spec, SpecNary : the AstPool driven by one client                       *)
(* SpecMT         : AstPool::addAstToPool called by several threads        *)
(* SpecPool       : the FormulaPool with handles, release and Tseitin maps *)
(*                                                                         *)
(* A read or a delete through a pointer to freed memory sets fault and     *)
(* ends the run: nothing is said about what the process does afterwards.   *)
(***************************************************************************)
EXTENDS Integers, Sequences, FiniteSets, TLC

\* ---- bounds of the model
MaxPairs == 3      \* published (node, negation) pairs besides TRUE/FALSE
MaxOps   == 3      \* operands in one n-ary construction request

\* ---- addresses
NULL    == 0
END     == NULL                       \* the end() iterator of a set
mpTrue  == 1                          \* address of the TRUE singleton
mpFalse == 2                          \* address of the FALSE singleton
Cap     == 2 + 2 * MaxPairs + 4       \* heap slots (spare ones for candidate pairs)
Addr    == 1 .. Cap
IdLimit == 3 + 2 * MaxPairs           \* largest value the allocator may reach

NaryTypes == {"AND", "OR", "XOR", "IFF"}
BoolVars  == {"b1", "b2"}             \* the Boolean variables a client wraps

VARIABLES
    nodes,          \* heap: address -> node content, FreeSlot when unallocated
    mAsts,          \* AstPool::mAsts, the lookup table (a set of addresses)
    mIdAllocator,   \* the id allocator
    last,           \* the last construction request and the pointer it returned
    mPool,          \* FormulaPool::mPool, the lookup table (a set of addresses)
    mTseitinVars,   \* FormulaPool::mTseitinVars: formula -> its Tseitin variable
    mTseitinVarToFormula, \* Tseitin variable -> key of its entry in mTseitinVars
    handles,        \* number of Formula handles the clients hold on each content
    freshBooleanVariables, \* how many fresh Boolean variables were handed out
    threads,        \* per thread: position in addAstToPool, candidate, result
    mMutexPool,     \* owner of the pool mutex, NULL when free
    fault,          \* "none", or how the process went wrong
    treeNodes,      \* Tree::nodes, the vector of nodes (index 0 is the root)
    emptyNodes,     \* Tree::emptyNodes, head of the list of erased nodes
    samples,        \* SampleSet::samples, the sorted list of samples
    queue,          \* SampleSet::queue, the samples in order of insertion
    NRqueue,        \* SampleSet::NRqueue, the numeric samples
    IRqueue,        \* SampleSet::IRqueue, the interval samples
    rootQueue,      \* SampleSet::rootQueue, the samples that are roots
    nonRootQueue    \* SampleSet::nonRootQueue, the samples that are no roots

poolVars == <<mPool, mTseitinVars, mTseitinVarToFormula, handles,
             freshBooleanVariables, fault>>
mtVars == <<threads, mMutexPool>>
treeVars == <<treeNodes, emptyNodes>>
cadVars == <<samples, queue, NRqueue, IRqueue, rootQueue, nonRootQueue>>
auxVars == <<treeVars, cadVars>>
vars == <<nodes, mAsts, mIdAllocator, last, mPool, mTseitinVars, mTseitinVarToFormula,
          handles, freshBooleanVariables, threads, mMutexPool, fault, auxVars>>

FreeSlot == [type |-> "FREE", subs |-> {}, var |-> "none", id |-> 0]
NoRequest == [op |-> "none", type |-> "none", subs |-> {}, var |-> "none", ret |-> NULL, published |-> FALSE]
Request(op, type, S, v) == [op |-> op, type |-> type, subs |-> S, var |-> v, ret |-> NULL, published |-> FALSE]

Live(h) == {a \in Addr : h[a].type # "FREE"}

\* operator new: some unallocated address
NewAddr(h) == CHOOSE a \in Addr : h[a].type = "FREE" /\ \A b \in Addr : h[b].type = "FREE" => a <= b

\* ---- Ast content constructors
AstBool(v)       == [type |-> "BOOL", subs |-> {}, var |-> v, id |-> 0]
AstNary(type, S) == [type |-> type, subs |-> S, var |-> "none", id |-> 0]
\* Ast( const Ast* ): the negation of the given ast, a NOT node over it
AstNegated(a)    == [type |-> "NOT", subs |-> {a}, var |-> "none", id |-> 0]

\* the operand of a NOT node
subast(h, a) == CHOOSE x \in h[a].subs : TRUE

\* equality used by the lookup table: type, operands and payload, never the id
SameShape(n, c) == n.type = c.type /\ n.subs = c.subs /\ n.var = c.var

\* ---- the id-ordered PointerSet and its iterators
AstLess(h, a, b)  == h[a].id < h[b].id
AstEqual(h, a, b) == h[a].id = h[b].id
SetBegin(h, S) ==
    IF S = {} THEN END
    ELSE CHOOSE a \in S : \A b \in S : ~AstLess(h, b, a)
SetNext(h, S, a) == SetBegin(h, {b \in S : AstLess(h, a, b)})

\* ---- AstPool::AstPool
AstPoolInitNodes ==
    [a \in Addr |->
        IF a = mpTrue THEN [type |-> "TRUE", subs |-> {}, var |-> "none", id |-> 1]
        ELSE IF a = mpFalse THEN [type |-> "FALSE", subs |-> {}, var |-> "none", id |-> 2]
        ELSE FreeSlot]

EmptyMap == [x \in {} |-> NULL]

\* ---- the containers beside the pools: an empty Tree and an empty SampleSet
MAXINT == -1                          \* std::numeric_limits<std::size_t>::max()
InitAux ==
    /\ treeNodes = <<>>
    /\ emptyNodes = MAXINT
    /\ samples = <<>>
    /\ queue = <<>>
    /\ NRqueue = <<>>
    /\ IRqueue = <<>>
    /\ rootQueue = <<>>
    /\ nonRootQueue = <<>>

Init ==
    /\ nodes = AstPoolInitNodes
    /\ mAsts = {mpTrue, mpFalse}
    /\ mIdAllocator = 3
    /\ last = NoRequest
    /\ mPool = {}
    /\ mTseitinVars = EmptyMap
    /\ mTseitinVarToFormula = EmptyMap
    /\ handles = [a \in Addr |-> 0]
    /\ freshBooleanVariables = 0
    /\ threads = <<>>
    /\ mMutexPool = NULL
    /\ fault = "none"
    /\ InitAux

\* a pool state handed through the pure operators
PoolState(h, tbl, alloc, ret) == [nodes |-> h, mAsts |-> tbl, alloc |-> alloc, ret |-> ret]

\* ---- AstPool::addAstToPool
\* (mutation) the candidate is published without looking it up
addAstToPool_NoLookup(h, tbl, alloc, cand) ==
    LET a  == NewAddr(h)
        h1 == [h EXCEPT ![a] = [cand EXCEPT !.id = alloc]]
        n  == NewAddr(h1)
        h2 == [h1 EXCEPT ![n] = [AstNegated(a) EXCEPT !.id = alloc + 1]]
    IN PoolState(h2, tbl \cup {a, n}, alloc + 2, a)

\* (mutation) the allocator is not advanced between the ast and its negation
addAstToPool_SameId(h, tbl, alloc, cand) ==
    LET found == {a \in tbl : SameShape(h[a], cand)} IN
    IF found # {}
    THEN PoolState(h, tbl, alloc, CHOOSE a \in found : TRUE)
    ELSE LET a  == NewAddr(h)
             h1 == [h EXCEPT ![a] = [cand EXCEPT !.id = alloc]]
             n  == NewAddr(h1)
             h2 == [h1 EXCEPT ![n] = [AstNegated(a) EXCEPT !.id = alloc]]
         IN PoolState(h2, tbl \cup {a, n}, alloc + 2, a)

\* (mutation) the negation takes the first id and the ast the one after
addAstToPool_NegationFirst(h, tbl, alloc, cand) ==
    LET found == {a \in tbl : SameShape(h[a], cand)} IN
    IF found # {}
    THEN PoolState(h, tbl, alloc, CHOOSE a \in found : TRUE)
    ELSE LET a  == NewAddr(h)
             h1 == [h EXCEPT ![a] = [cand EXCEPT !.id = alloc + 1]]
             n  == NewAddr(h1)
             h2 == [h1 EXCEPT ![n] = [AstNegated(a) EXCEPT !.id = alloc]]
         IN PoolState(h2, tbl \cup {a, n}, alloc + 2, a)

addAstToPool(h, tbl, alloc, cand) ==
    LET found == {a \in tbl : SameShape(h[a], cand)} IN
    IF found # {}
    THEN PoolState(h, tbl, alloc, CHOOSE a \in found : TRUE)
    ELSE LET a  == NewAddr(h)
             h1 == [h EXCEPT ![a] = [cand EXCEPT !.id = alloc]]
             n  == NewAddr(h1)
             h2 == [h1 EXCEPT ![n] = [AstNegated(a) EXCEPT !.id = alloc + 1]]
         IN PoolState(h2, tbl \cup {a, n}, alloc + 2, a)

\* ---- AstPool::newAstWithOneSubast (n-ary request that collapsed to one operand)
newAstWithOneSubast(type, a) ==
    IF type = "IFF" THEN mpTrue ELSE a

\* ---- AstPool::createAst, the test for a complementary pair at the iterator
\* (mutation) only the pair TRUE, FALSE is recognised
NegationPattern_ConstantsOnly(h, iterB, iter) ==
    iterB = mpTrue /\ iter = mpFalse

NegationPattern(h, iterB, iter) ==
    \/ iterB = mpTrue /\ iter = mpFalse
    \/ h[iter].type = "NOT" /\ AstEqual(h, subast(h, iter), iterB)

\* ---- AstPool::createAst, the loop over the operand set
\* result: [done, ret, subs]; done = TRUE when the loop returned a constant

RECURSIVE createAstLoop(_, _, _, _)
createAstLoop(h, type, S, iter) ==
    IF iter = END THEN [done |-> FALSE, ret |-> NULL, subs |-> S]
    ELSE IF h[iter].type = type /\ type \in {"AND", "OR"}
    THEN LET S2 == (S \cup h[iter].subs) \ {iter}
         IN createAstLoop(h, type, S2, SetNext(h, S2, iter))
    ELSE LET iterB == iter
             it    == SetNext(h, S, iter)
         IN IF it # END /\ NegationPattern(h, iterB, it)
            THEN CASE type = "AND" -> [done |-> TRUE, ret |-> mpFalse, subs |-> S]
                   [] type = "OR"  -> [done |-> TRUE, ret |-> mpTrue, subs |-> S]
                   [] type = "IFF" -> [done |-> TRUE, ret |-> mpFalse, subs |-> S]
                   [] type = "XOR" ->
                        LET S2 == S \ {iterB, it}
                        IN createAstLoop(h, type, S2 \cup {mpTrue}, SetNext(h, S2, it))
            ELSE createAstLoop(h, type, S, it)

\* ---- AstPool::createAst, the SIMPLIFY_AST block
\* result: [done, ret, subs]
\* (mutation) TRUE is not erased from the operands of AND, nor FALSE from OR
SimplifyAst_KeepIdentity(h, type, S) ==
    LET b            == SetBegin(h, S)
        second       == SetNext(h, S, b)
        iterToTrue   == IF b = mpTrue THEN b ELSE END
        iterToFalse  == IF b = mpTrue
                        THEN (IF second # END /\ second # mpFalse THEN END ELSE second)
                        ELSE (IF b # mpFalse THEN END ELSE b)
    IN CASE type = "AND" ->
              IF iterToFalse # END THEN [done |-> TRUE, ret |-> mpFalse, subs |-> S]
              ELSE [done |-> FALSE, ret |-> NULL, subs |-> S]
         [] type = "OR" ->
              IF iterToTrue # END THEN [done |-> TRUE, ret |-> mpTrue, subs |-> S]
              ELSE [done |-> FALSE, ret |-> NULL, subs |-> S]
         [] type = "IFF" ->
              IF iterToFalse # END /\ iterToTrue # END
              THEN [done |-> TRUE, ret |-> mpFalse, subs |-> S]
              ELSE [done |-> FALSE, ret |-> NULL, subs |-> S]
         [] OTHER -> [done |-> FALSE, ret |-> NULL, subs |-> S]

SimplifyAst(h, type, S) ==
    LET b            == SetBegin(h, S)
        second       == SetNext(h, S, b)
        iterToTrue   == IF b = mpTrue THEN b ELSE END
        iterToFalse  == IF b = mpTrue
                        THEN (IF second # END /\ second # mpFalse THEN END ELSE second)
                        ELSE (IF b # mpFalse THEN END ELSE b)
    IN CASE type = "AND" ->
              LET S2 == IF iterToTrue # END THEN S \ {iterToTrue} ELSE S
              IN IF iterToFalse # END THEN [done |-> TRUE, ret |-> mpFalse, subs |-> S2]
                 ELSE IF S2 = {} THEN [done |-> TRUE, ret |-> mpTrue, subs |-> S2]
                 ELSE [done |-> FALSE, ret |-> NULL, subs |-> S2]
         [] type = "OR" ->
              LET S2 == IF iterToFalse # END THEN S \ {iterToFalse} ELSE S
              IN IF iterToTrue # END THEN [done |-> TRUE, ret |-> mpTrue, subs |-> S2]
                 ELSE IF S2 = {} THEN [done |-> TRUE, ret |-> mpFalse, subs |-> S2]
                 ELSE [done |-> FALSE, ret |-> NULL, subs |-> S2]
         [] type = "IFF" ->
              IF iterToFalse # END /\ iterToTrue # END
              THEN [done |-> TRUE, ret |-> mpFalse, subs |-> S]
              ELSE [done |-> FALSE, ret |-> NULL, subs |-> S]
         [] OTHER -> [done |-> FALSE, ret |-> NULL, subs |-> S]

\* ---- AstPool::createAst
\* (mutation) an empty operand set yields the neutral element of the connective
createAst_EmptyIsNeutral(h, tbl, alloc, type, subasts) ==
    LET l == createAstLoop(h, type, subasts, SetBegin(h, subasts)) IN
    IF l.done THEN PoolState(h, tbl, alloc, l.ret)
    ELSE IF l.subs = {}
         THEN PoolState(h, tbl, alloc, IF type \in {"AND", "IFF"} THEN mpTrue ELSE mpFalse)
    ELSE LET s == SimplifyAst(h, type, l.subs) IN
         IF s.done THEN PoolState(h, tbl, alloc, s.ret)
         ELSE IF Cardinality(s.subs) = 1
              THEN PoolState(h, tbl, alloc, newAstWithOneSubast(type, CHOOSE x \in s.subs : TRUE))
              ELSE addAstToPool(h, tbl, alloc, AstNary(type, s.subs))

\* (mutation) a single remaining operand is published as a node of its own
createAst_SingletonKept(h, tbl, alloc, type, subasts) ==
    LET l == createAstLoop(h, type, subasts, SetBegin(h, subasts)) IN
    IF l.done THEN PoolState(h, tbl, alloc, l.ret)
    ELSE IF l.subs = {} THEN PoolState(h, tbl, alloc, mpFalse)
    ELSE LET s == SimplifyAst(h, type, l.subs) IN
         IF s.done THEN PoolState(h, tbl, alloc, s.ret)
         ELSE addAstToPool(h, tbl, alloc, AstNary(type, s.subs))

createAst(h, tbl, alloc, type, subasts) ==
    LET l == createAstLoop(h, type, subasts, SetBegin(h, subasts)) IN
    IF l.done THEN PoolState(h, tbl, alloc, l.ret)
    ELSE IF l.subs = {} THEN PoolState(h, tbl, alloc, mpFalse)
    ELSE LET s == SimplifyAst(h, type, l.subs) IN
         IF s.done THEN PoolState(h, tbl, alloc, s.ret)
         ELSE IF Cardinality(s.subs) = 1
              THEN PoolState(h, tbl, alloc, newAstWithOneSubast(type, CHOOSE x \in s.subs : TRUE))
              ELSE addAstToPool(h, tbl, alloc, AstNary(type, s.subs))

\* ---- client operations on the AstPool
\* A client calls one construction entry point, observes the returned pointer
\* (recorded in last) and then goes on: Return ends the observation.
Idle == last = NoRequest

Install(r, rq) ==
    /\ r.alloc <= IdLimit
    /\ nodes' = r.nodes
    /\ mAsts' = r.mAsts
    /\ mIdAllocator' = r.alloc
    /\ last' = [rq EXCEPT !.ret = r.ret, !.published = (r.alloc # mIdAllocator)]
    /\ UNCHANGED <<poolVars, mtVars, auxVars>>

Return ==
    /\ ~Idle
    /\ last' = NoRequest
    /\ UNCHANGED <<nodes, mAsts, mIdAllocator, poolVars, mtVars, auxVars>>

\* wrap a Boolean variable: addAstToPool( new Ast( variable ) )
NewBoolean(v) ==
    Idle /\
    Install(addAstToPool(nodes, mAsts, mIdAllocator, AstBool(v)),
            Request("bool", "BOOL", {}, v))

\* createAst( type, subasts ) over a set of published asts
CreateAst(type, S) ==
    Install(createAst(nodes, mAsts, mIdAllocator, type, S),
            Request("nary", type, S, "none"))

OperandSets == {S \in SUBSET Live(nodes) : Cardinality(S) <= MaxOps}

\* the AND/OR family
Next ==
    \/ \E v \in BoolVars : NewBoolean(v)
    \/ Idle /\ \E type \in {"AND", "OR"} : \E S \in OperandSets : CreateAst(type, S)
    \/ Return

Spec == Init /\ [][Next]_vars

\* all four n-ary connectives
NextNary ==
    \/ \E v \in BoolVars : NewBoolean(v)
    \/ Idle /\ \E type \in NaryTypes : \E S \in OperandSets : CreateAst(type, S)
    \/ Return

SpecNary == Init /\ [][NextNary]_vars

\* ---- FormulaPool::create( const FormulasMulti& )
\* A multiset of formulas is a set of pairs <<formula, multiplicity>>; the
\* constructor walks it in id order, one occurrence after the other.
MaxMult == 3
Multisets(h) ==
    UNION {{ {<<a, f[a]>> : a \in D} : f \in [D -> 1 .. MaxMult] } : D \in
           {S \in SUBSET Live(h) : Cardinality(S) <= MaxOps}}
MultiElems(M) == {p[1] : p \in M}
MultiCount(M, a) == (CHOOSE p \in M : p[1] = a)[2]

RECURSIVE MultiSeq(_, _, _)
MultiSeq(h, M, S) ==
    IF S = {} THEN <<>>
    ELSE LET a == SetBegin(h, S)
         IN [i \in 1 .. MultiCount(M, a) |-> a] \o MultiSeq(h, M, S \ {a})

\* the loop of lines 386-402: result [subFormulas, lastSubFormula, counter]
RECURSIVE createMultiLoop(_, _, _, _, _, _)
createMultiLoop(h, seq, subFormula, lastSubFormula, counter, subFormulas) ==
    IF subFormula > Len(seq)
    THEN [subFormulas |-> subFormulas, lastSubFormula |-> lastSubFormula, counter |-> counter]
    ELSE IF AstEqual(h, seq[lastSubFormula], seq[subFormula])
    THEN createMultiLoop(h, seq, subFormula + 1, lastSubFormula, counter + 1, subFormulas)
    ELSE createMultiLoop(h, seq, subFormula + 1, subFormula, 1,
                         IF counter % 2 = 1 THEN subFormulas \cup {seq[lastSubFormula]}
                         ELSE subFormulas)

\* (mutation) the element counted last is never inserted
createMulti_LastDropped(h, tbl, alloc, M) ==
    LET seq == MultiSeq(h, M, MultiElems(M)) IN
    IF Len(seq) = 0 THEN PoolState(h, tbl, alloc, mpFalse)
    ELSE IF Len(seq) = 1 THEN PoolState(h, tbl, alloc, seq[1])
    ELSE LET l == createMultiLoop(h, seq, 2, 1, 1, {})
         IN createAst(h, tbl, alloc, "XOR", l.subFormulas)

createMulti(h, tbl, alloc, M) ==
    LET seq == MultiSeq(h, M, MultiElems(M)) IN
    IF Len(seq) = 0 THEN PoolState(h, tbl, alloc, mpFalse)
    ELSE IF Len(seq) = 1 THEN PoolState(h, tbl, alloc, seq[1])
    ELSE LET l  == createMultiLoop(h, seq, 2, 1, 1, {})
             sf == IF l.counter % 2 = 1
                   THEN l.subFormulas \cup {seq[l.lastSubFormula]}
                   ELSE l.subFormulas
         IN createAst(h, tbl, alloc, "XOR", sf)

\* create( multiset ) over published asts
CreateMulti(M) ==
    Install(createMulti(nodes, mAsts, mIdAllocator, M),
            Request("multi", "XOR", M, "none"))

\* the XOR/IFF family and the multiset constructor
NextParity ==
    \/ \E v \in BoolVars : NewBoolean(v)
    \/ Idle /\ \E type \in {"XOR", "IFF"} : \E S \in OperandSets : CreateAst(type, S)
    \/ Idle /\ \E M \in Multisets(nodes) : CreateMulti(M)
    \/ Return

SpecParity == Init /\ [][NextParity]_vars

(***************************************************************************)
(* AstPool::addAstToPool called by several threads (thread-safe build)     *)
(***************************************************************************)
NumThreads == 2
Threads    == 1 .. NumThreads
NoThread   == [pc |-> "start", var |-> "none", ast |-> NULL, ret |-> NULL, novel |-> FALSE]

InitMT ==
    /\ nodes = AstPoolInitNodes
    /\ mAsts = {mpTrue, mpFalse}
    /\ mIdAllocator = 3
    /\ last = NoRequest
    /\ mPool = {}
    /\ mTseitinVars = EmptyMap
    /\ mTseitinVarToFormula = EmptyMap
    /\ handles = [a \in Addr |-> 0]
    /\ freshBooleanVariables = 0
    /\ threads = [t \in Threads |-> NoThread]
    /\ mMutexPool = NULL
    /\ fault = "none"
    /\ InitAux

\* AST_POOL_LOCK_GUARD: std::lock_guard on the recursive mutex of the pool
\* (mutation) the macro of the build without THREAD_SAFE, which expands to nothing
LockGuard_Absent(owner, t) == TRUE

LockGuard(owner, t) == owner = NULL \/ owner = t

MTFrame == UNCHANGED <<last, poolVars, auxVars>>

\* the caller allocates the candidate: new Ast( variable )
MTNew(t, v) ==
    /\ threads[t].pc = "start"
    /\ LET a == NewAddr(nodes)
       IN /\ nodes' = [nodes EXCEPT ![a] = AstBool(v)]
          /\ threads' = [threads EXCEPT ![t] =
                 [pc |-> "call", var |-> v, ast |-> a, ret |-> NULL,
                  novel |-> \A b \in mAsts : ~SameShape(nodes[b], AstBool(v))]]
    /\ UNCHANGED <<mAsts, mIdAllocator, mMutexPool>>
    /\ MTFrame

\* line 601: the guard is taken
MTLock(t) ==
    /\ threads[t].pc = "call"
    /\ LockGuard(mMutexPool, t)
    /\ mMutexPool' = t
    /\ threads' = [threads EXCEPT ![t].pc = "find"]
    /\ UNCHANGED <<nodes, mAsts, mIdAllocator>>
    /\ MTFrame

\* line 602, mAsts.insert: the lookup; lines 603-606 when the ast exists
MTFind(t) ==
    /\ threads[t].pc = "find"
    /\ LET found == {a \in mAsts : SameShape(nodes[a], nodes[threads[t].ast])}
       IN IF found # {}
          THEN /\ nodes' = [nodes EXCEPT ![threads[t].ast] = FreeSlot]
               /\ threads' = [threads EXCEPT ![t].pc = "unlock",
                                             ![t].ret = CHOOSE a \in found : TRUE]
          ELSE /\ threads' = [threads EXCEPT ![t].pc = "link"]
               /\ UNCHANGED nodes
    /\ UNCHANGED <<mAsts, mIdAllocator, mMutexPool>>
    /\ MTFrame

\* line 602, mAsts.insert: the candidate becomes an element of the table
MTLink(t) ==
    /\ threads[t].pc = "link"
    /\ mAsts' = mAsts \cup {threads[t].ast}
    /\ threads' = [threads EXCEPT ![t].pc = "id"]
    /\ UNCHANGED <<nodes, mIdAllocator, mMutexPool>>
    /\ MTFrame

\* lines 609-611
MTAssignId(t) ==
    /\ threads[t].pc = "id"
    /\ mIdAllocator < IdLimit
    /\ nodes' = [nodes EXCEPT ![threads[t].ast].id = mIdAllocator]
    /\ mIdAllocator' = mIdAllocator + 1
    /\ threads' = [threads EXCEPT ![t].pc = "negation"]
    /\ UNCHANGED <<mAsts, mMutexPool>>
    /\ MTFrame

\* lines 615-620
MTNegation(t) ==
    /\ threads[t].pc = "negation"
    /\ LET n == NewAddr(nodes)
       IN /\ nodes' = [nodes EXCEPT ![n] = [AstNegated(threads[t].ast) EXCEPT !.id = mIdAllocator]]
          /\ mAsts' = mAsts \cup {n}
    /\ mIdAllocator' = mIdAllocator + 1
    /\ threads' = [threads EXCEPT ![t].pc = "unlock", ![t].ret = threads[t].ast]
    /\ UNCHANGED mMutexPool
    /\ MTFrame

\* line 622: return, the guard is destroyed
MTReturn(t) ==
    /\ threads[t].pc = "unlock"
    /\ mMutexPool' = NULL
    /\ threads' = [threads EXCEPT ![t].pc = "done"]
    /\ UNCHANGED <<nodes, mAsts, mIdAllocator>>
    /\ MTFrame

NextMT ==
    \/ \E t \in Threads : \E v \in BoolVars : MTNew(t, v)
    \/ \E t \in Threads : MTLock(t)
    \/ \E t \in Threads : MTFind(t)
    \/ \E t \in Threads : MTLink(t)
    \/ \E t \in Threads : MTAssignId(t)
    \/ \E t \in Threads : MTNegation(t)
    \/ \E t \in Threads : MTReturn(t)

SpecMT == InitMT /\ [][NextMT]_vars

\* ---- readers of the table in another thread
\* FormulaPool::print and FormulaPool::size: no lock guard; the thread walks
\* the table as it is at that moment
MTPrint(t) ==
    /\ threads[t].pc \in {"start", "done"}
    /\ last' = Request("print", "none", mAsts, "none")
    /\ UNCHANGED <<nodes, mAsts, mIdAllocator, threads, mMutexPool, poolVars, auxVars>>
\* FormulaPool::forallDo: FORMULA_POOL_LOCK_GUARD, then the walk
MTForallDo(t) ==
    /\ threads[t].pc \in {"start", "done"}
    /\ LockGuard(mMutexPool, t)
    /\ last' = Request("forallDo", "none", mAsts, "none")
    /\ UNCHANGED <<nodes, mAsts, mIdAllocator, threads, mMutexPool, poolVars, auxVars>>

NextObserved ==
    \/ \E t \in Threads : \E v \in BoolVars : MTNew(t, v)
    \/ \E t \in Threads : MTLock(t)
    \/ \E t \in Threads : MTFind(t)
    \/ \E t \in Threads : MTLink(t)
    \/ \E t \in Threads : MTAssignId(t)
    \/ \E t \in Threads : MTNegation(t)
    \/ \E t \in Threads : MTReturn(t)
    \/ \E t \in Threads : MTPrint(t)
    \/ \E t \in Threads : MTForallDo(t)

SpecObserved == InitMT /\ [][NextObserved]_vars

(***************************************************************************)
(* FormulaPool: interning with usage counting, release and the Tseitin     *)
(* maps                                                                    *)
(***************************************************************************)
MaxHandles   == 3                      \* Formula handles the clients hold in total
MaxPublished == 2                      \* pairs the FormulaPool publishes in one run
PoolIdLimit  == 3 + 2 * MaxPublished   \* largest value its allocator may reach
PinnedUsages == 2                      \* usage count that pins TRUE and FALSE
Constraints  == {"x=0", "x!=0", "0=0", "0!=0"}
FreshNames   == <<"h1", "h2", "h3">>       \* carl::freshBooleanVariable(), in order

\* ---- the constraint value type (an external collaborator)
ConstraintNegation(c) ==
    CASE c = "x=0" -> "x!=0" [] c = "x!=0" -> "x=0"
      [] c = "0=0" -> "0!=0" [] c = "0!=0" -> "0=0"
ConstraintRank(c) ==
    CASE c = "0=0" -> 1 [] c = "0!=0" -> 2 [] c = "x=0" -> 3 [] c = "x!=0" -> 4
ConstraintLess(c, d) == ConstraintRank(c) < ConstraintRank(d)
\* 0: identically false, 1: identically true, 2: depends on the variables
isConsistent(c) ==
    CASE c = "0=0" -> 1 [] c = "0!=0" -> 0 [] OTHER -> 2

\* ---- FormulaContent
FormulaContent(type, S, v) ==
    [type |-> type, subs |-> S, var |-> v, id |-> 0, neg |-> NULL, usages |-> 0]

\* a pool state handed through the pure operators
ThePool ==
    [nodes |-> nodes, mPool |-> mPool, mIdAllocator |-> mIdAllocator,
     mTseitinVars |-> mTseitinVars, mTseitinVarToFormula |-> mTseitinVarToFormula,
     freshBooleanVariables |-> freshBooleanVariables, fault |-> fault]

Fault(st, what) == [st EXCEPT !.fault = what]
Dangling(st, a) == a = NULL \/ st.nodes[a].type = "FREE"

\* ---- std::unordered_map: find, erase, operator[]
MapHas(m, k)    == k \in DOMAIN m
MapErase(m, k)  == [x \in (DOMAIN m) \ {k} |-> m[x]]
MapPut(m, k, v) == [x \in (DOMAIN m) \cup {k} |-> IF x = k THEN v ELSE m[x]]

\* ---- FormulaPool::FormulaPool
FormulaPoolInitNodes ==
    [a \in Addr |->
        IF a = mpTrue
        THEN [type |-> "TRUE", subs |-> {}, var |-> "none", id |-> 1,
              neg |-> mpFalse, usages |-> PinnedUsages]
        ELSE IF a = mpFalse
        THEN [type |-> "FALSE", subs |-> {}, var |-> "none", id |-> 2,
              neg |-> mpTrue, usages |-> PinnedUsages]
        ELSE FreeSlot]

InitPool ==
    /\ nodes = FormulaPoolInitNodes
    /\ mPool = {mpTrue, mpFalse}
    /\ mIdAllocator = 3
    /\ mTseitinVars = EmptyMap
    /\ mTseitinVarToFormula = EmptyMap
    /\ freshBooleanVariables = 0
    /\ handles = [a \in Addr |-> 0]
    /\ fault = "none"
    /\ last = NoRequest
    /\ mAsts = {}
    /\ threads = <<>>
    /\ mMutexPool = NULL
    /\ InitAux

\* ---- FormulaPool::isBaseFormula, FormulaPool::getBaseFormula
isBaseFormula(h, f) == ConstraintLess(h[f].var, h[h[f].neg].var)

getBaseFormula(h, f) ==
    IF h[f].type = "NOT" THEN h[f].neg
    ELSE IF h[f].type = "CONSTRAINT"
         THEN (IF isBaseFormula(h, f) THEN f ELSE h[f].neg)
         ELSE f

\* ---- FormulaPool::reg
\* (mutation) the use is counted on the content itself, not on its base formula
reg_OnElement(st, elem) ==
    IF st.fault # "none" THEN st
    ELSE IF Dangling(st, elem) THEN Fault(st, "use-after-free")
    ELSE LET u == st.nodes[elem].usages + 1
         IN IF u = 1 /\ st.nodes[elem].type = "CONSTRAINT"
            THEN [st EXCEPT !.nodes[elem].usages = u + 1]
            ELSE [st EXCEPT !.nodes[elem].usages = u]

\* (mutation) the first registration of a constraint counts once
reg_ConstraintCountedOnce(st, elem) ==
    IF st.fault # "none" THEN st
    ELSE IF Dangling(st, elem) \/ Dangling(st, getBaseFormula(st.nodes, elem))
    THEN Fault(st, "use-after-free")
    ELSE LET tmp == getBaseFormula(st.nodes, elem)
         IN [st EXCEPT !.nodes[tmp].usages = @ + 1]

\* (mutation) the use is not counted
reg_NotCounted(st, elem) ==
    IF st.fault # "none" THEN st
    ELSE IF Dangling(st, elem) \/ Dangling(st, getBaseFormula(st.nodes, elem))
    THEN Fault(st, "use-after-free")
    ELSE st

reg(st, elem) ==
    IF st.fault # "none" THEN st
    ELSE IF Dangling(st, elem) \/ Dangling(st, getBaseFormula(st.nodes, elem))
    THEN Fault(st, "use-after-free")
    ELSE LET tmp == getBaseFormula(st.nodes, elem)
             u   == st.nodes[tmp].usages + 1
         IN IF u = 1 /\ st.nodes[elem].type = "CONSTRAINT"
            THEN [st EXCEPT !.nodes[tmp].usages = u + 1]
            ELSE [st EXCEPT !.nodes[tmp].usages = u]

\* ---- FormulaPool::free, FormulaPool::freeTseitinVariable and the destructor
\* of a content, which releases the handles the content holds
RECURSIVE free(_, _), freeTseitinVariable(_, _), deleteContent(_, _),
          freeHandles(_, _, _), deletePair(_, _)

freeHandles(st, h0, S) ==
    IF S = {} THEN st
    ELSE LET s == SetBegin(h0, S)
         IN freeHandles(free(st, s), h0, S \ {s})

\* delete p: ~FormulaContent, then the memory is given back
deleteContent(st, p) ==
    IF st.fault # "none" THEN st
    ELSE IF Dangling(st, p) THEN Fault(st, "double-free")
    ELSE LET s1 == freeHandles(st, st.nodes, st.nodes[p].subs)
         IN IF s1.fault # "none" THEN s1
            ELSE [s1 EXCEPT !.nodes[p] = FreeSlot]

\* (mutation) the negation is not deleted
deletePair_NegationKept(st, tmp) ==
    IF st.fault # "none" THEN st
    ELSE IF Dangling(st, tmp) THEN Fault(st, "use-after-free")
    ELSE deleteContent([st EXCEPT !.mPool = @ \ {tmp}], tmp)

\* mPool.erase( tmp ); delete tmp->mNegation; delete tmp;
deletePair(st, tmp) ==
    IF st.fault # "none" THEN st
    ELSE IF Dangling(st, tmp) THEN Fault(st, "use-after-free")
    ELSE LET s1 == [st EXCEPT !.mPool = @ \ {tmp}]
             s2 == deleteContent(s1, s1.nodes[tmp].neg)
         IN deleteContent(s2, tmp)

\* result: [st, stored]
freeTseitinVariable(st, toDelete) ==
    IF st.fault # "none" THEN [st |-> st, stored |-> FALSE]
    ELSE IF MapHas(st.mTseitinVars, toDelete)
    THEN LET tv == st.mTseitinVars[toDelete] IN
         IF Dangling(st, tv) THEN [st |-> Fault(st, "use-after-free"), stored |-> FALSE]
         ELSE IF st.nodes[tv].usages = 1
         THEN LET s1 == [st EXCEPT !.mTseitinVars = MapErase(@, toDelete)] IN
              IF ~MapHas(s1.mTseitinVarToFormula, tv)
              THEN [st |-> Fault(s1, "assert"), stored |-> FALSE]
              ELSE LET s2 == [s1 EXCEPT !.mTseitinVarToFormula = MapErase(@, tv)]
                   IN [st |-> deletePair(s2, tv), stored |-> FALSE]
         ELSE [st |-> st, stored |-> TRUE]
    ELSE IF MapHas(st.mTseitinVarToFormula, toDelete)
    THEN LET fcont == st.mTseitinVarToFormula[toDelete] IN
         IF Dangling(st, fcont) THEN [st |-> Fault(st, "use-after-free"), stored |-> FALSE]
         ELSE IF st.nodes[fcont].usages = 1
         THEN LET tmp == getBaseFormula(st.nodes, fcont)
                  s1  == [st EXCEPT !.mTseitinVars = MapErase(@, fcont),
                                    !.mTseitinVarToFormula = MapErase(@, toDelete)]
              IN [st |-> deletePair(s1, tmp), stored |-> FALSE]
         ELSE [st |-> st, stored |-> TRUE]
    ELSE [st |-> st, stored |-> FALSE]

\* (mutation) a release at counter 0 is ignored instead of halting
free_Recovers(st, elem) ==
    IF st.fault # "none" THEN st
    ELSE IF Dangling(st, elem) \/ Dangling(st, getBaseFormula(st.nodes, elem))
    THEN Fault(st, "use-after-free")
    ELSE LET tmp == getBaseFormula(st.nodes, elem) IN
         IF st.nodes[tmp].usages = 0 THEN st
         ELSE LET s1 == [st EXCEPT !.nodes[tmp].usages = @ - 1] IN
              IF s1.nodes[tmp].usages # 1 THEN s1
              ELSE LET r1 == freeTseitinVariable(s1, tmp) IN
                   IF r1.st.fault # "none" THEN r1.st
                   ELSE IF Dangling(r1.st, tmp) THEN Fault(r1.st, "use-after-free")
                   ELSE LET r2 == freeTseitinVariable(r1.st, r1.st.nodes[tmp].neg) IN
                        IF r1.stored \/ r2.stored THEN r2.st
                        ELSE deletePair(r2.st, tmp)

\* (mutation) the pair is deleted when the counter comes down to two
free_DeleteAtTwo(st, elem) ==
    IF st.fault # "none" THEN st
    ELSE IF Dangling(st, elem) \/ Dangling(st, getBaseFormula(st.nodes, elem))
    THEN Fault(st, "use-after-free")
    ELSE LET tmp == getBaseFormula(st.nodes, elem) IN
         IF st.nodes[tmp].usages = 0 THEN Fault(st, "assert")
         ELSE LET s1 == [st EXCEPT !.nodes[tmp].usages = @ - 1] IN
              IF s1.nodes[tmp].usages # 2 THEN s1
              ELSE LET r1 == freeTseitinVariable(s1, tmp) IN
                   IF r1.st.fault # "none" THEN r1.st
                   ELSE IF Dangling(r1.st, tmp) THEN Fault(r1.st, "use-after-free")
                   ELSE LET r2 == freeTseitinVariable(r1.st, r1.st.nodes[tmp].neg) IN
                        IF r1.stored \/ r2.stored THEN r2.st
                        ELSE deletePair(r2.st, tmp)

free(st, elem) ==
    IF st.fault # "none" THEN st
    ELSE IF Dangling(st, elem) \/ Dangling(st, getBaseFormula(st.nodes, elem))
    THEN Fault(st, "use-after-free")
    ELSE LET tmp == getBaseFormula(st.nodes, elem) IN
         IF st.nodes[tmp].usages = 0 THEN Fault(st, "assert")
         ELSE LET s1 == [st EXCEPT !.nodes[tmp].usages = @ - 1] IN
              IF s1.nodes[tmp].usages # 1 THEN s1
              ELSE LET r1 == freeTseitinVariable(s1, tmp) IN
                   IF r1.st.fault # "none" THEN r1.st
                   ELSE IF Dangling(r1.st, tmp) THEN Fault(r1.st, "use-after-free")
                   ELSE LET r2 == freeTseitinVariable(r1.st, r1.st.nodes[tmp].neg) IN
                        IF r1.stored \/ r2.stored THEN r2.st
                        ELSE deletePair(r2.st, tmp)

\* ---- FormulaPool::createNegatedContent
\* result: [st, ret]; the NOT content holds a Formula handle on f
createNegatedContent(st, f) ==
    LET n == NewAddr(st.nodes) IN
    IF st.nodes[f].type = "CONSTRAINT"
    THEN [st  |-> [st EXCEPT !.nodes[n] =
                      FormulaContent("CONSTRAINT", {}, ConstraintNegation(st.nodes[f].var))],
          ret |-> n]
    ELSE [st  |-> reg([st EXCEPT !.nodes[n] = FormulaContent("NOT", {f}, "none")], f),
          ret |-> n]

\* ---- FormulaPool::add
\* (mutation) the allocator is not advanced after the negation got its id
add_IdNotConsumed(st, cand) ==
    LET found == {a \in st.mPool : SameShape(st.nodes[a], cand)} IN
    IF found # {}
    THEN [st |-> st, ret |-> CHOOSE a \in found : TRUE]
    ELSE LET a  == NewAddr(st.nodes)
             s1 == [st EXCEPT !.nodes[a] = [cand EXCEPT !.id = st.mIdAllocator],
                              !.mPool = @ \cup {a},
                              !.mIdAllocator = @ + 1]
             r  == createNegatedContent(s1, a)
             n  == r.ret
             s2 == [r.st EXCEPT !.nodes[a].neg = n,
                                !.nodes[n].id = s1.mIdAllocator,
                                !.nodes[n].neg = a]
         IN [st |-> s2, ret |-> a]

add(st, cand) ==
    LET found == {a \in st.mPool : SameShape(st.nodes[a], cand)} IN
    IF found # {}
    THEN [st |-> st, ret |-> CHOOSE a \in found : TRUE]
    ELSE LET a  == NewAddr(st.nodes)
             s1 == [st EXCEPT !.nodes[a] = [cand EXCEPT !.id = st.mIdAllocator],
                              !.mPool = @ \cup {a},
                              !.mIdAllocator = @ + 1]
             r  == createNegatedContent(s1, a)
             n  == r.ret
             s2 == [r.st EXCEPT !.nodes[a].neg = n,
                                !.nodes[n].id = s1.mIdAllocator,
                                !.nodes[n].neg = a,
                                !.mIdAllocator = @ + 1]
         IN [st |-> s2, ret |-> a]

\* ---- FormulaPool::create, one operator per overload
createBool(st, type) ==
    [st |-> st, ret |-> IF type = "TRUE" THEN mpTrue ELSE mpFalse]

createVariable(st, v) == add(st, FormulaContent("BOOL", {}, v))

createConstraint(st, c) ==
    CASE isConsistent(c) = 0 -> [st |-> st, ret |-> mpFalse]
      [] isConsistent(c) = 1 -> [st |-> st, ret |-> mpTrue]
      [] OTHER ->
           IF ConstraintLess(c, ConstraintNegation(c))
           THEN add(st, FormulaContent("CONSTRAINT", {}, c))
           ELSE LET r == add(st, FormulaContent("CONSTRAINT", {}, ConstraintNegation(c)))
                IN [st |-> r.st, ret |-> r.st.nodes[r.ret].neg]

\* (mutation) NOT is interned as a node over its operand
createUnary_NotInterned(st, type, subFormula) ==
    CASE type = "NOT" ->
           LET r == add(st, FormulaContent("NOT", {subFormula}, "none"))
           IN [st |-> reg(r.st, subFormula), ret |-> r.ret]
      [] type \in {"AND", "OR", "XOR"} -> [st |-> st, ret |-> subFormula]
      [] type = "IFF" -> createBool(st, "TRUE")
      [] OTHER -> [st |-> Fault(st, "assert"), ret |-> NULL]

\* (mutation) NOT is answered like IFF
createUnary_NotAsIff(st, type, subFormula) ==
    CASE type \in {"AND", "OR", "XOR"} -> [st |-> st, ret |-> subFormula]
      [] type \in {"NOT", "IFF"} -> createBool(st, "TRUE")
      [] OTHER -> [st |-> Fault(st, "assert"), ret |-> NULL]

createUnary(st, type, subFormula) ==
    CASE type = "NOT" -> [st |-> st, ret |-> st.nodes[subFormula].neg]
      [] type \in {"AND", "OR", "XOR"} -> [st |-> st, ret |-> subFormula]
      [] type = "IFF" -> createBool(st, "TRUE")
      [] OTHER -> [st |-> Fault(st, "assert"), ret |-> NULL]

\* ---- FormulaPool::getTseitinVar, FormulaPool::createTseitinVar
\* the returned Formula is a new handle: it registers on the content
\* (mutation) a formula without placeholder is given one
getTseitinVar_Creates(st, f) ==
    IF MapHas(st.mTseitinVars, f)
    THEN [st |-> reg(st, st.mTseitinVars[f]), ret |-> st.mTseitinVars[f]]
    ELSE LET s1 == [st EXCEPT !.mTseitinVars = MapPut(@, f, mpTrue),
                              !.mTseitinVarToFormula = MapPut(@, mpTrue, f)]
         IN [st |-> reg(s1, mpTrue), ret |-> mpTrue]

getTseitinVar(st, f) ==
    IF MapHas(st.mTseitinVars, f)
    THEN [st |-> reg(st, st.mTseitinVars[f]), ret |-> st.mTseitinVars[f]]
    ELSE [st |-> reg(st, mpTrue), ret |-> mpTrue]

createTseitinVar(st, f) ==
    IF MapHas(st.mTseitinVars, f)
    THEN [st |-> reg(st, st.mTseitinVars[f]), ret |-> st.mTseitinVars[f]]
    ELSE LET s1 == [st EXCEPT !.mTseitinVars = MapPut(@, f, NULL),
                              !.freshBooleanVariables = @ + 1]
             r  == createVariable(s1, FreshNames[s1.freshBooleanVariables])
             hi == r.ret
             s2 == [r.st EXCEPT !.mTseitinVars = MapPut(@, f, hi),
                                !.mTseitinVarToFormula = MapPut(@, hi, f)]
         IN [st |-> reg(s2, hi), ret |-> hi]

\* ---- Formula (the handle): construction registers, destruction releases
FormulaCtor(r)     == [st |-> reg(r.st, r.ret), ret |-> r.ret]
FormulaDtor(st, a) == free(st, a)

\* ---- client operations on the FormulaPool
RECURSIVE SumOver(_, _)
SumOver(f, S) ==
    IF S = {} THEN 0
    ELSE LET x == CHOOSE y \in S : TRUE IN f[x] + SumOver(f, S \ {x})
HandleCount == SumOver(handles, Addr)
Held        == {a \in Addr : handles[a] > 0}
Running     == Idle /\ fault = "none"

\* limit: the largest value the allocator may reach by publishing
InstallPoolUpTo(limit, r, rq, hdl) ==
    /\ r.st.mIdAllocator # mIdAllocator => r.st.mIdAllocator <= limit
    /\ nodes' = r.st.nodes
    /\ mPool' = r.st.mPool
    /\ mIdAllocator' = r.st.mIdAllocator
    /\ mTseitinVars' = r.st.mTseitinVars
    /\ mTseitinVarToFormula' = r.st.mTseitinVarToFormula
    /\ freshBooleanVariables' = r.st.freshBooleanVariables
    /\ fault' = r.st.fault
    /\ handles' = hdl
    /\ last' = [rq EXCEPT !.ret = r.ret, !.published = (r.st.mIdAllocator # mIdAllocator)]
    /\ UNCHANGED <<mAsts, mtVars, auxVars>>

InstallPool(r, rq, hdl) == InstallPoolUpTo(PoolIdLimit, r, rq, hdl)

\* a construction entry point returns a Formula: one more handle on the result
Construct(r, rq) ==
    /\ HandleCount < MaxHandles
    /\ LET c == FormulaCtor(r)
       IN InstallPool(c, rq, IF c.ret = NULL THEN handles
                             ELSE [handles EXCEPT ![c.ret] = @ + 1])

FormulaBool(type)    == Construct(createBool(ThePool, type), Request("const", type, {}, "none"))
FormulaVariable(v)   == Construct(createVariable(ThePool, v), Request("var", "BOOL", {}, v))
FormulaConstraint(c) == Construct(createConstraint(ThePool, c), Request("constraint", "CONSTRAINT", {}, c))
FormulaNot(a)        == Construct(createUnary(ThePool, "NOT", a), Request("unary", "NOT", {a}, "none"))
FormulaCopy(a)       == Construct([st |-> ThePool, ret |-> a], Request("copy", "none", {a}, "none"))
CreateTseitinVar(a)  ==
    /\ freshBooleanVariables < Len(FreshNames) \/ MapHas(mTseitinVars, a)
    /\ HandleCount < MaxHandles
    /\ LET r == createTseitinVar(ThePool, a)
       IN InstallPool(r, Request("createTseitinVar", "none", {a}, "none"),
                      [handles EXCEPT ![r.ret] = @ + 1])
GetTseitinVar(a)     ==
    /\ HandleCount < MaxHandles
    /\ LET r == getTseitinVar(ThePool, a)
       IN InstallPool(r, Request("getTseitinVar", "none", {a}, "none"),
                      [handles EXCEPT ![r.ret] = @ + 1])
FormulaDestroy(a)    ==
    InstallPool([st |-> FormulaDtor(ThePool, a), ret |-> NULL],
                Request("destroy", "none", {a}, "none"),
                [handles EXCEPT ![a] = @ - 1])

ReturnPool ==
    /\ ~Idle
    /\ last' = NoRequest
    /\ UNCHANGED <<nodes, mAsts, mIdAllocator, poolVars, mtVars, auxVars>>

NextPool ==
    \/ Running /\ \E type \in {"TRUE", "FALSE"} : FormulaBool(type)
    \/ Running /\ \E v \in BoolVars : FormulaVariable(v)
    \/ Running /\ \E c \in Constraints : FormulaConstraint(c)
    \/ Running /\ \E a \in Held : FormulaNot(a)
    \/ Running /\ \E a \in Held : FormulaCopy(a)
    \/ Running /\ \E a \in Held : CreateTseitinVar(a)
    \/ Running /\ \E a \in Held : GetTseitinVar(a)
    \/ Running /\ \E a \in Held : FormulaDestroy(a)
    \/ ReturnPool

SpecPool == InitPool /\ [][NextPool]_vars

(***************************************************************************)
(* FormulaPool: placeholders of placeholders (one variable, chains of       *)
(* Tseitin variables over it)                                              *)
(***************************************************************************)
MaxChain      == 3                     \* pairs published in a run with chains
ChainIdLimit  == 3 + 2 * MaxChain

ChainVariable ==
    /\ HandleCount < MaxHandles
    /\ LET c == FormulaCtor(createVariable(ThePool, "b1"))
       IN InstallPoolUpTo(ChainIdLimit, c, Request("var", "BOOL", {}, "b1"),
                          [handles EXCEPT ![c.ret] = @ + 1])
ChainCreateTseitinVar(a) ==
    /\ freshBooleanVariables < Len(FreshNames) \/ MapHas(mTseitinVars, a)
    /\ HandleCount < MaxHandles
    /\ LET r == createTseitinVar(ThePool, a)
       IN InstallPoolUpTo(ChainIdLimit, r, Request("createTseitinVar", "none", {a}, "none"),
                          [handles EXCEPT ![r.ret] = @ + 1])

NextChain ==
    \/ Running /\ ChainVariable
    \/ Running /\ \E a \in Held : ChainCreateTseitinVar(a)
    \/ Running /\ \E a \in Held : FormulaNot(a)
    \/ Running /\ \E a \in Held : GetTseitinVar(a)
    \/ Running /\ \E a \in Held : FormulaDestroy(a)
    \/ ReturnPool

SpecChain == InitPool /\ [][NextChain]_vars

(***************************************************************************)
(* FormulaPool: chains of placeholders in a run long enough for the heap   *)
(* to hand the address of a deleted placeholder to a new one               *)
(***************************************************************************)
MaxReuse      == 4                     \* pairs published in such a run
ReuseIdLimit  == 3 + 2 * MaxReuse

ReuseVariable ==
    /\ HandleCount < MaxHandles
    /\ LET c == FormulaCtor(createVariable(ThePool, "b1"))
       IN InstallPoolUpTo(ReuseIdLimit, c, Request("var", "BOOL", {}, "b1"),
                          [handles EXCEPT ![c.ret] = @ + 1])
ReuseCreateTseitinVar(a) ==
    /\ freshBooleanVariables < Len(FreshNames) \/ MapHas(mTseitinVars, a)
    /\ HandleCount < MaxHandles
    /\ LET r == createTseitinVar(ThePool, a)
       IN InstallPoolUpTo(ReuseIdLimit, r, Request("createTseitinVar", "none", {a}, "none"),
                          [handles EXCEPT ![r.ret] = @ + 1])

NextReuse ==
    \/ Running /\ ReuseVariable
    \/ Running /\ \E a \in Held : ReuseCreateTseitinVar(a)
    \/ Running /\ \E a \in Held : FormulaNot(a)
    \/ Running /\ \E a \in Held : FormulaDestroy(a)
    \/ ReturnPool

SpecReuse == InitPool /\ [][NextReuse]_vars

(***************************************************************************)
(* FormulaPool with a client that breaks the contract: free is a public    *)
(* member, and here it is also called on a content the caller holds no     *)
(* handle on                                                               *)
(***************************************************************************)
\* pool.free( content ) without a Formula going out of scope
ReleaseUnheld(a) ==
    InstallPool([st |-> free(ThePool, a), ret |-> NULL],
                Request("free", "none", {a}, "none"), handles)

NextContract ==
    \/ Running /\ \E v \in BoolVars : FormulaVariable(v)
    \/ Running /\ \E a \in Held \cap Live(nodes) : FormulaNot(a)
    \/ Running /\ \E a \in Held : CreateTseitinVar(a)
    \/ Running /\ \E a \in Held : FormulaDestroy(a)
    \/ Running /\ \E a \in Live(nodes) : handles[a] = 0 /\ ReleaseUnheld(a)
    \/ ReturnPool

SpecContract == InitPool /\ [][NextContract]_vars

(***************************************************************************)
(* FormulaPool: the quantifier overload of create                          *)
(***************************************************************************)
QuantifierTypes == {"EXISTS", "FORALL"}
VarLists == {<<>>, <<"x">>, <<"x", "y">>}   \* std::vector<Variable> arguments

\* the bound variables of a content, as its payload
RECURSIVE VarsName(_)
VarsName(vs) == IF vs = <<>> THEN "" ELSE vs[1] \o "," \o VarsName(Tail(vs))

\* new FormulaContent( type, vars, term ): the content holds a Formula on the
\* body; add publishes it, or deletes it again when the shape is known
QuantifierContent(st, type, vs, term) ==
    LET s1 == reg(st, term)
        r  == add(s1, FormulaContent(type, {term}, VarsName(vs)))
    IN IF r.st.mIdAllocator = s1.mIdAllocator
       THEN [st |-> free(r.st, term), ret |-> r.ret]
       ELSE r

\* (mutation) an empty variable list is interned like any other
createQuantifier_EmptyInterned(st, type, vs, term) ==
    QuantifierContent(st, type, vs, term)

\* ---- FormulaPool::create( FormulaType, std::vector<Variable>&&, const Formula& )
\* (mutation) the new content refers to the body without holding a handle on it
createQuantifier_TermNotHeld(st, type, vs, term) ==
    IF type \notin QuantifierTypes THEN [st |-> Fault(st, "assert"), ret |-> NULL]
    ELSE IF Len(vs) > 0 THEN add(st, FormulaContent(type, {term}, VarsName(vs)))
    ELSE [st |-> st, ret |-> term]
createQuantifier(st, type, vs, term) ==
    IF type \notin QuantifierTypes THEN [st |-> Fault(st, "assert"), ret |-> NULL]
    ELSE IF Len(vs) > 0 THEN QuantifierContent(st, type, vs, term)
    ELSE [st |-> st, ret |-> term]

FormulaQuantifier(type, vs, a) ==
    /\ HandleCount < MaxHandles
    /\ LET c == FormulaCtor(createQuantifier(ThePool, type, vs, a))
       IN InstallPoolUpTo(ChainIdLimit, c, Request("quantifier", type, {a}, VarsName(vs)),
                          [handles EXCEPT ![c.ret] = @ + 1])

NextQuantifier ==
    \/ Running /\ ChainVariable
    \/ Running /\ \E type \in QuantifierTypes : \E vs \in VarLists : \E a \in Held :
                      FormulaQuantifier(type, vs, a)
    \/ Running /\ \E a \in Held : FormulaNot(a)
    \/ Running /\ \E a \in Held : FormulaDestroy(a)
    \/ ReturnPool

SpecQuantifier == InitPool /\ [][NextQuantifier]_vars

(***************************************************************************)
(* FormulaPool: the atom overloads of create (bit-vector constraints and   *)
(* uninterpreted equalities)                                               *)
(***************************************************************************)
\* ---- the bit-vector constraint value type (an external collaborator)
BVConstraints == {"bv:true", "bv:false", "bv:x<y"}
isAlwaysConsistent(c)   == c = "bv:true"
isAlwaysInconsistent(c) == c = "bv:false"

\* ---- the arguments of an uninterpreted equality: UVariable or UFInstance
UArgs == {"u", "v", "f(u)"}
IsUVariable(a)  == a \in {"u", "v"}
IsUFInstance(a) == a = "f(u)"
UArgRank(a)     == CASE a = "u" -> 1 [] a = "v" -> 2 [] a = "f(u)" -> 3
UArgLess(a, b)  == UArgRank(a) < UArgRank(b)
\* the UEquality value: both sides and the negated flag
UEquality(lhs, rhs, negated) == (lhs \o (IF negated THEN "!=" ELSE "=")) \o rhs
UEqualityValues == {UEquality("u", "v", n) : n \in BOOLEAN}

\* ---- FormulaPool::create(BVConstraint&&)
createBVConstraint(st, c) ==
    IF isAlwaysConsistent(c) THEN [st |-> st, ret |-> mpTrue]
    ELSE IF isAlwaysInconsistent(c) THEN [st |-> st, ret |-> mpFalse]
    ELSE add(st, FormulaContent("BITVECTOR", {}, c))

\* ---- FormulaPool::create(UEquality::Arg, UEquality::Arg, bool)
\* (mutation) equal sides are interned like any other equality
createUEquality_EqualSidesInterned(st, lhs, rhs, negated) ==
    IF UArgLess(rhs, lhs)
    THEN add(st, FormulaContent("UEQ", {}, UEquality(rhs, lhs, negated)))
    ELSE add(st, FormulaContent("UEQ", {}, UEquality(lhs, rhs, negated)))

createUEquality(st, lhs, rhs, negated) ==
    IF IsUVariable(lhs) /\ IsUVariable(rhs)
    THEN IF UArgLess(lhs, rhs)
         THEN add(st, FormulaContent("UEQ", {}, UEquality(lhs, rhs, negated)))
         ELSE IF UArgLess(rhs, lhs)
         THEN add(st, FormulaContent("UEQ", {}, UEquality(rhs, lhs, negated)))
         ELSE IF negated THEN [st |-> st, ret |-> mpFalse]
         ELSE [st |-> st, ret |-> mpTrue]
    ELSE IF IsUVariable(lhs) /\ IsUFInstance(rhs)
    THEN add(st, FormulaContent("UEQ", {}, UEquality(lhs, rhs, negated)))
    ELSE IF IsUFInstance(lhs) /\ IsUVariable(rhs)
    THEN add(st, FormulaContent("UEQ", {}, UEquality(rhs, lhs, negated)))
    ELSE IF UArgLess(lhs, rhs)
         THEN add(st, FormulaContent("UEQ", {}, UEquality(lhs, rhs, negated)))
         ELSE IF UArgLess(rhs, lhs)
         THEN add(st, FormulaContent("UEQ", {}, UEquality(rhs, lhs, negated)))
         ELSE IF negated THEN [st |-> st, ret |-> mpFalse]
         ELSE [st |-> st, ret |-> mpTrue]

\* ---- FormulaPool::create(UEquality&&)
createUEqualityValue(st, eq) == add(st, FormulaContent("UEQ", {}, eq))

\* ---- client operations on atoms
FormulaBVConstraint(c) ==
    Construct(createBVConstraint(ThePool, c), Request("bvconstraint", "BITVECTOR", {}, c))
FormulaUEquality(lhs, rhs, negated) ==
    Construct(createUEquality(ThePool, lhs, rhs, negated),
              Request("uequality", "UEQ", {}, UEquality(lhs, rhs, negated)))
FormulaUEqualityValue(eq) ==
    Construct(createUEqualityValue(ThePool, eq), Request("uequalityvalue", "UEQ", {}, eq))

NextAtoms ==
    \/ Running /\ \E c \in Constraints : FormulaConstraint(c)
    \/ Running /\ \E c \in BVConstraints : FormulaBVConstraint(c)
    \/ Running /\ \E lhs \in UArgs : \E rhs \in UArgs : \E negated \in BOOLEAN :
                      FormulaUEquality(lhs, rhs, negated)
    \/ Running /\ \E eq \in UEqualityValues : FormulaUEqualityValue(eq)
    \/ Running /\ \E a \in Held : FormulaNot(a)
    \/ Running /\ \E a \in Held : FormulaDestroy(a)
    \/ ReturnPool

SpecAtoms == InitPool /\ [][NextAtoms]_vars

(***************************************************************************)
(* FormulaPool in thread-safe mode: the operations of several threads,     *)
(* step by step, with the recursive mutex mMutexPool                       *)
(***************************************************************************)
IdleThread ==
    [pc |-> "idle", op |-> "none", var |-> "none", arg |-> NULL, ret |-> NULL, depth |-> 0]

InitLock ==
    /\ nodes = FormulaPoolInitNodes
    /\ mPool = {mpTrue, mpFalse}
    /\ mIdAllocator = 3
    /\ mTseitinVars = EmptyMap
    /\ mTseitinVarToFormula = EmptyMap
    /\ freshBooleanVariables = 0
    /\ handles = [a \in Addr |-> 0]
    /\ fault = "none"
    /\ last = NoRequest
    /\ mAsts = {}
    /\ threads = [t \in Threads |-> IdleThread]
    /\ mMutexPool = NULL
    /\ InitAux

\* ---- std::recursive_mutex: lock() and unlock() of thread t
\* (mutation) a plain mutex: the owner cannot lock again
RecursiveLockGuard_Plain(owner, t) == owner = NULL

RecursiveLockGuard(owner, t) == LockGuard(owner, t)

\* the thread goes on at pc, with or without a change of its lock depth
Goto(t, pc)   == [threads[t] EXCEPT !.pc = pc]
lock(t, pc) ==
    /\ RecursiveLockGuard(mMutexPool, t)
    /\ mMutexPool' = t
    /\ threads' = [threads EXCEPT ![t] = [Goto(t, pc) EXCEPT !.depth = @ + 1]]
unlock(t, rec) ==
    /\ mMutexPool' = IF threads[t].depth = 1 THEN NULL ELSE t
    /\ threads' = [threads EXCEPT ![t] = [rec EXCEPT !.depth = threads[t].depth - 1]]

SetPool(st) ==
    /\ nodes' = st.nodes
    /\ mPool' = st.mPool
    /\ mIdAllocator' = st.mIdAllocator
    /\ mTseitinVars' = st.mTseitinVars
    /\ mTseitinVarToFormula' = st.mTseitinVarToFormula
    /\ freshBooleanVariables' = st.freshBooleanVariables
    /\ fault' = st.fault
SamePool == UNCHANGED <<nodes, mPool, mIdAllocator, mTseitinVars, mTseitinVarToFormula,
                        freshBooleanVariables, fault>>
LockFrame == UNCHANGED <<last, mAsts, auxVars>>

\* handles under construction, and handles lent to a call as its argument
Constructing == {t \in Threads : threads[t].op \in {"variable", "createTseitinVar", "getTseitinVar"}}
Borrowed(a)  == Cardinality({t \in Constructing : threads[t].arg = a})
At(t, pc)    == fault = "none" /\ threads[t].pc = pc
\* the calls in flight that may still publish a pair, and room for one more
Publishing   ==
    {t \in Threads : threads[t].pc \in {"ctv_insert", "add_lock", "add", "neg_lock", "neg_reg"}}
CanPublish   == mIdAllocator + 2 * (Cardinality(Publishing) + 1) <= PoolIdLimit

\* ---- the client calls
BeginVariable(t, v) ==
    /\ At(t, "idle")
    /\ HandleCount + Cardinality(Constructing) < MaxHandles
    /\ CanPublish
    /\ threads' = [threads EXCEPT ![t] = [IdleThread EXCEPT !.pc = "add_lock", !.op = "variable", !.var = v]]
    /\ UNCHANGED <<mMutexPool, handles>> /\ SamePool /\ LockFrame
BeginCreateTseitinVar(t, a) ==
    /\ At(t, "idle")
    /\ HandleCount + Cardinality(Constructing) < MaxHandles
    /\ CanPublish
    /\ freshBooleanVariables + Cardinality(Publishing \cap {u \in Threads : threads[u].op = "createTseitinVar"})
          < Len(FreshNames)
    /\ threads' = [threads EXCEPT ![t] = [IdleThread EXCEPT !.pc = "ctv_insert", !.op = "createTseitinVar", !.arg = a]]
    /\ UNCHANGED <<mMutexPool, handles>> /\ SamePool /\ LockFrame
BeginGetTseitinVar(t, a) ==
    /\ At(t, "idle")
    /\ HandleCount + Cardinality(Constructing) < MaxHandles
    /\ threads' = [threads EXCEPT ![t] = [IdleThread EXCEPT !.pc = "gtv_find", !.op = "getTseitinVar", !.arg = a]]
    /\ UNCHANGED <<mMutexPool, handles>> /\ SamePool /\ LockFrame
BeginDestroy(t, a) ==
    /\ At(t, "idle")
    /\ handles[a] > Borrowed(a)
    /\ handles' = [handles EXCEPT ![a] = @ - 1]
    /\ threads' = [threads EXCEPT ![t] = [IdleThread EXCEPT !.pc = "free_lock", !.op = "destroy", !.arg = a]]
    /\ UNCHANGED mMutexPool /\ SamePool /\ LockFrame

\* ---- FormulaPool::add, called by create: lock, look up, publish (the
\* negation's handle registers on the new node with the lock held), unlock
AddLock(t) ==
    /\ At(t, "add_lock")
    /\ lock(t, "add")
    /\ UNCHANGED handles /\ SamePool /\ LockFrame
Add(t) ==
    /\ At(t, "add")
    /\ LET r == createVariable(ThePool, threads[t].var)
       IN IF r.st.mIdAllocator = mIdAllocator
          THEN threads' = [threads EXCEPT ![t] = [Goto(t, "add_unlock") EXCEPT !.ret = r.ret]]
          ELSE threads' = [threads EXCEPT ![t] = Goto(t, "neg_lock")]
    /\ UNCHANGED <<mMutexPool, handles>> /\ SamePool /\ LockFrame
NegLock(t) ==
    /\ At(t, "neg_lock")
    /\ lock(t, "neg_reg")
    /\ UNCHANGED handles /\ SamePool /\ LockFrame
NegReg(t) ==
    /\ At(t, "neg_reg")
    /\ LET r == createVariable(ThePool, threads[t].var)
       IN /\ SetPool(r.st)
          /\ unlock(t, [Goto(t, "add_unlock") EXCEPT !.ret = r.ret])
    /\ UNCHANGED handles /\ LockFrame
AddUnlock(t) ==
    /\ At(t, "add_unlock")
    /\ unlock(t, Goto(t, IF threads[t].op = "variable" THEN "ctor_lock" ELSE "ctv_link"))
    /\ UNCHANGED handles /\ SamePool /\ LockFrame

\* ---- Formula::Formula( content ): FormulaPool::reg
CtorLock(t) ==
    /\ At(t, "ctor_lock")
    /\ lock(t, "ctor_reg")
    /\ UNCHANGED handles /\ SamePool /\ LockFrame
CtorReg(t) ==
    /\ At(t, "ctor_reg")
    /\ LET st == reg(ThePool, threads[t].ret)
       IN /\ SetPool(st)
          /\ handles' = IF st.fault = "none" THEN [handles EXCEPT ![threads[t].ret] = @ + 1]
                        ELSE handles
    /\ unlock(t, IdleThread)
    /\ LockFrame

\* ---- FormulaPool::createTseitinVar: no lock guard of its own
CtvInsert(t) ==
    /\ At(t, "ctv_insert")
    /\ LET f == threads[t].arg
       IN IF MapHas(mTseitinVars, f)
          THEN /\ threads' = [threads EXCEPT ![t] = Goto(t, "ctv_ret")]
               /\ UNCHANGED <<mTseitinVars, freshBooleanVariables>>
          ELSE /\ mTseitinVars' = MapPut(mTseitinVars, f, NULL)
               /\ freshBooleanVariables' = freshBooleanVariables + 1
               /\ threads' = [threads EXCEPT ![t] =
                     [Goto(t, "add_lock") EXCEPT !.var = FreshNames[freshBooleanVariables + 1]]]
    /\ UNCHANGED <<nodes, mPool, mIdAllocator, mTseitinVarToFormula, fault, mMutexPool, handles>>
    /\ LockFrame
\* iter.first->second = hi; mTseitinVarToFormula[hi] = iter.first;
CtvLink(t) ==
    /\ At(t, "ctv_link")
    /\ LET f == threads[t].arg
       IN IF MapHas(mTseitinVars, f)
          THEN /\ mTseitinVars' = MapPut(mTseitinVars, f, threads[t].ret)
               /\ mTseitinVarToFormula' = MapPut(mTseitinVarToFormula, threads[t].ret, f)
               /\ fault' = fault
          ELSE /\ fault' = "use-after-free"
               /\ UNCHANGED <<mTseitinVars, mTseitinVarToFormula>>
    /\ threads' = [threads EXCEPT ![t] = Goto(t, "ctv_ret")]
    /\ UNCHANGED <<nodes, mPool, mIdAllocator, freshBooleanVariables, mMutexPool, handles>>
    /\ LockFrame
\* return Formula<Pol>( iter.first->second );
CtvReturn(t) ==
    /\ At(t, "ctv_ret")
    /\ LET f == threads[t].arg
       IN IF MapHas(mTseitinVars, f)
          THEN /\ threads' = [threads EXCEPT ![t] =
                     [Goto(t, "ctor_lock") EXCEPT !.ret = mTseitinVars[f]]]
               /\ fault' = fault
          ELSE /\ threads' = [threads EXCEPT ![t] = Goto(t, "ctor_lock")]
               /\ fault' = "use-after-free"
    /\ UNCHANGED <<nodes, mPool, mIdAllocator, mTseitinVars, mTseitinVarToFormula,
                   freshBooleanVariables, mMutexPool, handles>>
    /\ LockFrame

\* ---- FormulaPool::getTseitinVar: no lock guard of its own
GtvFind(t) ==
    /\ At(t, "gtv_find")
    /\ LET f == threads[t].arg
       IN threads' = [threads EXCEPT ![t] =
             [Goto(t, "ctor_lock") EXCEPT
                 !.ret = IF MapHas(mTseitinVars, f) THEN mTseitinVars[f] ELSE mpTrue]]
    /\ UNCHANGED <<mMutexPool, handles>> /\ SamePool /\ LockFrame

\* ---- Formula::~Formula: FormulaPool::free, lock guard at its start; a
\* deleted NOT node releases its operand, which enters free again
FreeLock(t) ==
    /\ At(t, "free_lock")
    /\ lock(t, "free_body")
    /\ UNCHANGED handles /\ SamePool /\ LockFrame
FreeBody(t) ==
    /\ At(t, "free_body")
    /\ \E st \in {free(ThePool, threads[t].arg)} :
          \E cascade \in {\E a \in Addr : nodes[a].type = "NOT" /\ st.nodes[a].type = "FREE"} :
             /\ SetPool(st)
             /\ threads' = [threads EXCEPT ![t] =
                   Goto(t, IF cascade THEN "cascade_lock" ELSE "free_unlock")]
    /\ UNCHANGED <<mMutexPool, handles>> /\ LockFrame
CascadeLock(t) ==
    /\ At(t, "cascade_lock")
    /\ lock(t, "cascade_unlock")
    /\ UNCHANGED handles /\ SamePool /\ LockFrame
CascadeUnlock(t) ==
    /\ At(t, "cascade_unlock")
    /\ unlock(t, Goto(t, "free_unlock"))
    /\ UNCHANGED handles /\ SamePool /\ LockFrame
FreeUnlock(t) ==
    /\ At(t, "free_unlock")
    /\ unlock(t, IdleThread)
    /\ UNCHANGED handles /\ SamePool /\ LockFrame

\* the steps inside an operation, and the calls a client may issue
Step(t) ==
    \/ AddLock(t) \/ Add(t) \/ NegLock(t) \/ NegReg(t) \/ AddUnlock(t)
    \/ CtorLock(t) \/ CtorReg(t)
    \/ CtvInsert(t) \/ CtvLink(t) \/ CtvReturn(t) \/ GtvFind(t)
    \/ FreeLock(t) \/ FreeBody(t) \/ CascadeLock(t) \/ CascadeUnlock(t) \/ FreeUnlock(t)

NextLock ==
    \/ \E t \in Threads : BeginVariable(t, "b1")
    \/ \E t \in Threads : \E a \in Held : BeginCreateTseitinVar(t, a)
    \/ \E t \in Threads : \E a \in Held : BeginGetTseitinVar(t, a)
    \/ \E t \in Threads : \E a \in Held : BeginDestroy(t, a)
    \/ \E t \in Threads : AddLock(t)
    \/ \E t \in Threads : Add(t)
    \/ \E t \in Threads : NegLock(t)
    \/ \E t \in Threads : NegReg(t)
    \/ \E t \in Threads : AddUnlock(t)
    \/ \E t \in Threads : CtorLock(t)
    \/ \E t \in Threads : CtorReg(t)
    \/ \E t \in Threads : CtvInsert(t)
    \/ \E t \in Threads : CtvLink(t)
    \/ \E t \in Threads : CtvReturn(t)
    \/ \E t \in Threads : GtvFind(t)
    \/ \E t \in Threads : FreeLock(t)
    \/ \E t \in Threads : FreeBody(t)
    \/ \E t \in Threads : CascadeLock(t)
    \/ \E t \in Threads : CascadeUnlock(t)
    \/ \E t \in Threads : FreeUnlock(t)

SpecLock == InitLock /\ [][NextLock]_vars
\* a thread inside an operation is scheduled again: weak fairness of its
\* steps; for FreeBody, which has no guard besides its position and always
\* moves on, the enabling condition of WF_vars(FreeBody(t)) is written out
SpecLockFair ==
    /\ SpecLock
    /\ \A t \in Threads :
          /\ WF_vars(threads[t].pc # "free_body" /\ Step(t))
          /\ ([]<>(~At(t, "free_body")) \/ []<><<FreeBody(t)>>_vars)


(***************************************************************************)
(* Properties of the AstPool                                               *)
(***************************************************************************)
\* the result of a request issued in the current pool state
Ask(type, S) == createAst(nodes, mAsts, mIdAllocator, type, S)
\* the result of a request issued in the pool state st
AskIn(st, type, S) == createAst(st.nodes, st.mAsts, st.alloc, type, S)

\* the negation of a published ast: the NOT node over it, the operand of a
\* NOT node, and TRUE/FALSE for each other
NegOf(h, a) ==
    IF a = mpTrue THEN mpFalse
    ELSE IF a = mpFalse THEN mpTrue
    ELSE IF h[a].type = "NOT" THEN subast(h, a)
    ELSE CHOOSE n \in Live(h) : h[n].type = "NOT" /\ h[n].subs = {a}

Complementary(h, S) == \E x \in S : NegOf(h, x) \in S

\* operand set after replacing nested same-connective operands by their operands
Flattened(h, type, S) ==
    UNION {IF h[x].type = type THEN h[x].subs ELSE {x} : x \in S}

C4_IdAdjacency ==
    /\ nodes[mpTrue].id = 1 /\ nodes[mpFalse].id = 2
    /\ \A f \in Live(nodes) \ {mpTrue, mpFalse} :
         nodes[f].type # "NOT" =>
           /\ \E n \in Live(nodes) :
                /\ nodes[n].type = "NOT" /\ nodes[n].subs = {f}
                /\ nodes[n].id = nodes[f].id + 1
           /\ \A x \in Live(nodes) :
                SetNext(nodes, {f, NegOf(nodes, f), x}, f) = NegOf(nodes, f)
    /\ \A n \in Live(nodes) :
         nodes[n].type = "NOT" => nodes[n].id = nodes[subast(nodes, n)].id + 1

C4_Witness ==
    /\ last.op = "nary" /\ last.published
    /\ nodes[NegOf(nodes, last.ret)].id = nodes[last.ret].id + 1
    /\ nodes[last.ret].id > 3


IsConst(a) == a \in {mpTrue, mpFalse}

\* C7: AND over a, a.negation and b returns FALSE and OR returns TRUE, for
\* all published a and b.
C7_Absorption ==
    Idle => \A a, b \in Live(nodes) :
              /\ Ask("AND", {a, NegOf(nodes, a), b}).ret = mpFalse
              /\ Ask("OR", {a, NegOf(nodes, a), b}).ret = mpTrue

\* C8: an AND/OR request whose flattened operand set holds some x and
\* x.negation returns FALSE/TRUE, and no published AND/OR node has a formula
\* and its negation among its operands.
C8_AbsorptionAfterFlattening ==
    /\ Idle => \A S \in OperandSets :
                 /\ Complementary(nodes, Flattened(nodes, "AND", S)) => Ask("AND", S).ret = mpFalse
                 /\ Complementary(nodes, Flattened(nodes, "OR", S)) => Ask("OR", S).ret = mpTrue
    /\ \A n \in Live(nodes) :
         nodes[n].type \in {"AND", "OR"} => ~Complementary(nodes, nodes[n].subs)

\* C9: a request over a nested same-connective node X and further operands R
\* returns the node that the flat request over X's operands and R returns, and
\* no published AND (OR) node has an AND (OR) node as an operand.
SameAsFlat(t, X, R) ==
    LET nested == Ask(t, {X} \cup R)
        flat   == AskIn(nested, t, nodes[X].subs \cup R)
    IN flat.ret = nested.ret

NoNestedSameConnective ==
    \A n \in Live(nodes) :
       nodes[n].type \in {"AND", "OR"} =>
          \A x \in nodes[n].subs : nodes[x].type # nodes[n].type

C9_Flattening ==
    /\ Idle => \A X \in Live(nodes) : \A R \in OperandSets :
                  (nodes[X].type \in {"AND", "OR"} /\ Cardinality(R) < MaxOps)
                     => SameAsFlat(nodes[X].type, X, R)
    /\ NoNestedSameConnective

\* the part of C9 that does not meet a complementary pair
C9_FlatteningNoComplement ==
    /\ Idle => \A X \in Live(nodes) : \A R \in OperandSets :
                  ( /\ nodes[X].type \in {"AND", "OR"}
                    /\ Cardinality(R) < MaxOps
                    /\ ~Complementary(nodes, nodes[X].subs \cup R) )
                     => SameAsFlat(nodes[X].type, X, R)
    /\ NoNestedSameConnective

\* C10: TRUE is dropped from AND and FALSE from OR, FALSE annihilates AND and
\* TRUE annihilates OR, AND over TRUE alone is TRUE and OR over FALSE alone is
\* FALSE.
C10_IdentityAnnihilator ==
    Idle =>
      /\ \A a \in Live(nodes) :
           /\ Ask("AND", {mpTrue, a}).ret = a
           /\ Ask("OR", {mpFalse, a}).ret = a
      /\ \A S \in OperandSets :
           /\ mpFalse \in S => Ask("AND", S).ret = mpFalse
           /\ mpTrue \in S => Ask("OR", S).ret = mpTrue
      /\ Ask("AND", {mpTrue}).ret = mpTrue
      /\ Ask("OR", {mpFalse}).ret = mpFalse

C10_Witness ==
    /\ last.op = "nary" /\ last.type = "AND"
    /\ \E a \in Live(nodes) :
         /\ nodes[a].type = "OR"
         /\ last.subs = {mpTrue, a}
         /\ last.ret = a


(***************************************************************************)
(* Properties of the concurrent AstPool                                    *)
(***************************************************************************)
Done(t)     == threads[t].pc = "done"
Published(v) == {a \in mAsts : SameShape(nodes[a], AstBool(v))}
Requested   == {threads[t].var : t \in {u \in Threads : threads[u].pc # "start"}}

\* C2: threads that intern the same unpublished shape concurrently all receive
\* one and the same node; one node and one negation are published for the
\* shape, and the allocator has handed out exactly two ids for it.
C2_ConcurrentIntern ==
    /\ \A v \in BoolVars : Cardinality(Published(v)) <= 1
    /\ \A t \in Threads : Done(t) =>
          /\ Published(threads[t].var) = {threads[t].ret}
          /\ Cardinality({n \in mAsts : nodes[n].type = "NOT"
                                        /\ nodes[n].subs = {threads[t].ret}}) = 1
    /\ \A t, u \in Threads :
          Done(t) /\ Done(u) /\ threads[t].var = threads[u].var
              => threads[t].ret = threads[u].ret
    /\ (\A t \in Threads : Done(t)) => mIdAllocator = 3 + 2 * Cardinality(Requested)

\* every thread asked for the same shape while it was unpublished, and all are back
C2_Witness ==
    /\ \A t \in Threads : Done(t) /\ threads[t].novel
    /\ Cardinality(Requested) = 1
    /\ mIdAllocator = 5


(***************************************************************************)
(* Properties of the FormulaPool                                           *)
(***************************************************************************)
NotOf(st, f) == createUnary(st, "NOT", f).ret

\* C3: every live formula has a negation, which is live and another formula,
\* and whose negation is the formula again; create(NOT, create(NOT, f)) is f.
C3_NegationInvolution ==
    \A f \in Live(nodes) :
        /\ nodes[f].neg # NULL
        /\ nodes[f].neg \in Live(nodes)
        /\ nodes[f].neg # f
        /\ nodes[nodes[f].neg].neg = f
        /\ NotOf(ThePool, f) = nodes[f].neg
        /\ NotOf(ThePool, NotOf(ThePool, f)) = f

\* a client negated a NOT formula and a constraint of the non-base polarity
C3_Witness ==
    /\ last.op = "unary"
    /\ \E f \in last.subs : nodes[f].type = "NOT" /\ last.ret = nodes[f].neg
    /\ \E c \in Live(nodes) : nodes[c].type = "CONSTRAINT" /\ getBaseFormula(nodes, c) # c

\* C5: live nodes have pairwise different ids, all below the allocator; the
\* allocator never decreases; a node that appears gets an id not below the
\* allocator's value before the step; a request answered with a node that
\* existed already leaves the allocator alone.
IdsUnique ==
    /\ \A a, b \in Live(nodes) : a # b => nodes[a].id # nodes[b].id
    /\ \A a \in Live(nodes) : nodes[a].id < mIdAllocator
IdsMonotonic ==
    /\ mIdAllocator' >= mIdAllocator
    /\ \A a \in Live(nodes') :
          (a \notin Live(nodes) \/ nodes'[a].id # nodes[a].id) => nodes'[a].id >= mIdAllocator
    /\ last'.ret \in Live(nodes) => mIdAllocator' = mIdAllocator
C5_IdsUniqueMonotonic == []IdsUnique /\ [][IdsMonotonic]_vars

\* a pair was deleted and a later request published a new pair
C5_Witness ==
    /\ last.published
    /\ mIdAllocator - 3 > Cardinality(Live(nodes)) - 2


(***************************************************************************)
(* The lookup table of the AstPool against the base-formula discipline     *)
(***************************************************************************)
\* C6: of every published node and its negation exactly one is an element of
\* the lookup table, and no NOT node is an element of it (TRUE and FALSE,
\* which the constructor stores both, are left aside).
C6_BaseFormulaInvariant ==
    /\ \A f \in Live(nodes) \ {mpTrue, mpFalse} :
          (f \in mAsts) # (NegOf(nodes, f) \in mAsts)
    /\ \A a \in mAsts : nodes[a].type # "NOT"

\* the same discipline on the FormulaPool, whose free erases the base formula only
PoolHoldsBaseFormulas ==
    /\ \A f \in Live(nodes) \ {mpTrue, mpFalse} :
          /\ (f \in mPool) # (nodes[f].neg \in mPool)
          /\ getBaseFormula(nodes, f) \in mPool
    /\ \A a \in mPool : nodes[a].type # "NOT"

(***************************************************************************)
(* Properties of XOR, IFF and the multiset constructor                     *)
(***************************************************************************)
\* the elements that occur an odd number of times
OddElems(M) == {p[1] : p \in {q \in M : q[2] % 2 = 1}}

\* C11: the multiset constructor returns what the XOR constructor returns for
\* the elements of odd multiplicity; no odd element gives FALSE (XOR(a,a)),
\* one odd element gives that element (XOR(a,a,a) = a), and the empty and
\* the one-element multiset give FALSE and the element.
C11_XorParity ==
    last.op = "multi" =>
        /\ last.ret = Ask("XOR", OddElems(last.subs)).ret
        /\ OddElems(last.subs) = {} => last.ret = mpFalse
        /\ (\E a \in Addr : OddElems(last.subs) = {a}) => last.ret \in OddElems(last.subs)
        /\ last.subs = {} => last.ret = mpFalse

\* XOR(a,b,b,c,c,c) was requested and answered with the node XOR(a,c)
C11_Witness ==
    /\ last.op = "multi"
    /\ \E a, b, c \in Addr : last.subs = {<<a, 1>>, <<b, 2>>, <<c, 3>>}
    /\ nodes[last.ret].type = "XOR"
    /\ nodes[last.ret].subs = OddElems(last.subs)

\* truth value of a published ast under a valuation of the Boolean variables
Valuations == [BoolVars -> BOOLEAN]
RECURSIVE Eval(_, _, _)
Eval(h, a, val) ==
    CASE h[a].type = "TRUE"  -> TRUE
      [] h[a].type = "FALSE" -> FALSE
      [] h[a].type = "BOOL"  -> val[h[a].var]
      [] h[a].type = "NOT"   -> ~Eval(h, subast(h, a), val)
      [] h[a].type = "AND"   -> \A x \in h[a].subs : Eval(h, x, val)
      [] h[a].type = "OR"    -> \E x \in h[a].subs : Eval(h, x, val)
      [] h[a].type = "XOR"   -> Cardinality({x \in h[a].subs : Eval(h, x, val)}) % 2 = 1
      [] h[a].type = "IFF"   -> \A x, y \in h[a].subs : Eval(h, x, val) = Eval(h, y, val)
XorOf(h, S, val) == Cardinality({x \in S : Eval(h, x, val)}) % 2 = 1

MaxXorOps == 4
XorOperandSets == {S \in SUBSET Live(nodes) : Cardinality(S) <= MaxXorOps}
OnlyPairs(h, S) == S # {} /\ \A x \in S : NegOf(h, x) \in S

\* C12: an XOR over operands with a complementary pair denotes the
\* exclusive-or of its operands; operands that are an even number of
\* complementary pairs give FALSE, an odd number gives TRUE.
C12_XorComplementary ==
    Idle => \A S \in XorOperandSets :
        Complementary(nodes, S) =>
            LET r == Ask("XOR", S) IN
            /\ \A val \in Valuations : Eval(r.nodes, r.ret, val) = XorOf(nodes, S, val)
            /\ OnlyPairs(nodes, S) =>
                 r.ret = (IF (Cardinality(S) \div 2) % 2 = 0 THEN mpFalse ELSE mpTrue)

\* the part that the constructor does satisfy: a single complementary pair
XorOnePair ==
    Idle => \A x \in Live(nodes) : Ask("XOR", {x, NegOf(nodes, x)}).ret = mpTrue

\* C13: IFF over operands that hold a formula together with its negation
\* (TRUE with FALSE included) is FALSE; IFF over one operand, which is what
\* operands denoting the same formula collapse to, is TRUE.
C13_IffSimplification ==
    Idle => \A S \in OperandSets :
        /\ Complementary(nodes, S) => Ask("IFF", S).ret = mpFalse
        /\ Cardinality(S) = 1 => Ask("IFF", S).ret = mpTrue

\* an IFF over three operands, two of them complementary, was answered FALSE
C13_Witness ==
    /\ last.op = "nary" /\ last.type = "IFF"
    /\ Cardinality(last.subs) = 3
    /\ \E x \in last.subs \ {mpTrue, mpFalse} : NegOf(nodes, x) \in last.subs
    /\ last.ret = mpFalse

(***************************************************************************)
(* Properties of the atom overloads                                        *)
(***************************************************************************)
Unchanged(r, ret) == r = [st |-> ThePool, ret |-> ret]

\* C14: wrapping an arithmetic constraint that is identically false or true
\* returns FALSE or TRUE, wrapping an always-consistent or
\* always-inconsistent bit-vector constraint returns TRUE or FALSE, and an
\* uninterpreted equality between identical sides returns TRUE, FALSE when
\* negated; in each case nothing is published: the lookup table, the id
\* allocator and the rest of the pool state are unchanged.
C14_AtomConstantFolding ==
    Running =>
        /\ \A c \in Constraints :
              /\ isConsistent(c) = 0 => Unchanged(createConstraint(ThePool, c), mpFalse)
              /\ isConsistent(c) = 1 => Unchanged(createConstraint(ThePool, c), mpTrue)
        /\ \A c \in BVConstraints :
              /\ isAlwaysConsistent(c) => Unchanged(createBVConstraint(ThePool, c), mpTrue)
              /\ isAlwaysInconsistent(c) => Unchanged(createBVConstraint(ThePool, c), mpFalse)
        /\ \A a \in UArgs :
              /\ Unchanged(createUEquality(ThePool, a, a, FALSE), mpTrue)
              /\ Unchanged(createUEquality(ThePool, a, a, TRUE), mpFalse)

C14_Witness ==
    /\ last.op = "uequality" /\ last.var = UEquality("f(u)", "f(u)", TRUE)
    /\ last.ret = mpFalse /\ ~last.published
    /\ \E a \in mPool : nodes[a].type = "UEQ"

ConstraintPolarity ==
    Running => \A c \in Constraints : isConsistent(c) = 2 =>
        LET r1 == createConstraint(ThePool, c)
            r2 == createConstraint(r1.st, ConstraintNegation(c))
        IN r2.ret = r1.st.nodes[r1.ret].neg /\ r2.st = r1.st

\* C15: for every non-constant atom value v, constraint or uninterpreted
\* equality, the formula built for the negated value is the negation of the
\* formula built for v, and the second request publishes nothing.
C15_AtomPolarity ==
    /\ ConstraintPolarity
    /\ Running => \A lhs \in UArgs : \A rhs \in UArgs : \A negated \in BOOLEAN :
          lhs # rhs =>
             LET r1 == createUEquality(ThePool, lhs, rhs, negated)
                 r2 == createUEquality(r1.st, lhs, rhs, ~negated)
             IN r2.ret = r1.st.nodes[r1.ret].neg /\ r2.st.mPool = r1.st.mPool

(***************************************************************************)
(* Properties of the FormulaPool: NOT, usage counting and deletion         *)
(***************************************************************************)
\* C16: create(NOT, x) returns x.negation for every formula x and leaves the
\* lookup table, the id allocator, every usage counter and both Tseitin maps
\* (the whole pool state) as they were.
C16_NotNeverPublishes ==
    /\ Running => \A x \in Live(nodes) :
          LET r == createUnary(ThePool, "NOT", x)
          IN /\ r.ret = nodes[x].neg
             /\ r.st.mPool = mPool /\ r.st.mIdAllocator = mIdAllocator
             /\ \A a \in Addr : r.st.nodes[a] = nodes[a]
             /\ r.st.mTseitinVars = mTseitinVars
             /\ r.st.mTseitinVarToFormula = mTseitinVarToFormula
    /\ last.op = "unary" /\ fault = "none" =>
          ~last.published /\ \A x \in last.subs : nodes[last.ret].neg = x

C16_Witness ==
    /\ last.op = "unary" /\ fault = "none"
    /\ nodes[last.ret].type = "NOT" /\ last.subs = nodes[last.ret].subs
    /\ DOMAIN mTseitinVars # {}

\* the formulas that take part in a Tseitin mapping, on either side
MapRange(m)   == {m[k] : k \in DOMAIN m}
TseitinMapped ==
    (DOMAIN mTseitinVars) \cup MapRange(mTseitinVars) \cup
    (DOMAIN mTseitinVarToFormula) \cup MapRange(mTseitinVarToFormula)
Singletons    == {mpTrue, mpFalse}
PairOf(a)     == {a, nodes[a].neg}
HandlesOn(a)  == handles[a] + handles[nodes[a].neg]

\* C17: a formula other than TRUE/FALSE that takes part in no Tseitin mapping
\* is in the pool only while a handle to one of its polarities exists: once
\* all n handles are released the node and its negation are gone, and size()
\* counts TRUE, FALSE and one entry per pair that is still held.
C17_UsageLifecycle ==
    fault = "none" =>
        /\ \A a \in Live(nodes) \ Singletons :
              PairOf(a) \cap TseitinMapped = {} => HandlesOn(a) >= 1
        /\ TseitinMapped = {} =>
              Cardinality(mPool) = 2 + Cardinality({getBaseFormula(nodes, a) : a \in Held \ Singletons})

C17_Witness ==
    /\ last.op = "destroy" /\ fault = "none"
    /\ \A x \in last.subs : nodes[x].type = "FREE"
    /\ Held = {} /\ TseitinMapped = {}
    /\ mIdAllocator = PoolIdLimit /\ mPool = Singletons /\ Live(nodes) = Singletons

PairedLive ==
    /\ mPool \subseteq Live(nodes)
    /\ \A a \in Live(nodes) :
          nodes[a].neg \in Live(nodes) /\ nodes[nodes[a].neg].neg = a
PairedDeletion ==
    \A a \in Live(nodes) :
        nodes'[a].type = "FREE" =>
            /\ nodes'[nodes[a].neg].type = "FREE"
            /\ PairOf(a) \cap mPool' = {}
\* C18: between pool operations a node is live exactly when its negation is
\* live, and the lookup table holds live nodes only; a step that frees a node
\* frees its negation in the same step and leaves neither in the table.
C18_PairedDeletion == []PairedLive /\ [][PairedDeletion]_vars

C18_Witness ==
    /\ last.op = "destroy" /\ fault = "none"
    /\ \A x \in last.subs : nodes[x].type = "FREE"
    /\ Cardinality(mPool) = 3 /\ TseitinMapped = {}

\* C19: whatever is constructed, registered and released, TRUE and FALSE stay
\* live at their addresses, stay in the lookup table and stay each other's
\* negation; their counters never come below the pinned value.
C19_ConstantsNeverFreed ==
    /\ nodes[mpTrue].type = "TRUE" /\ nodes[mpFalse].type = "FALSE"
    /\ Singletons \subseteq mPool
    /\ nodes[mpTrue].neg = mpFalse /\ nodes[mpFalse].neg = mpTrue
    /\ \A c \in Singletons : nodes[c].usages = PinnedUsages + handles[c]

C19_Witness ==
    /\ last.op = "destroy" /\ last.subs = {mpFalse} /\ fault = "none"
    /\ handles[mpTrue] = 0 /\ handles[mpFalse] = 0
    /\ MapHas(mTseitinVars, mpFalse)

InPool(f) ==
    /\ PairOf(f) \subseteq Live(nodes)
    /\ getBaseFormula(nodes, f) \in mPool
Unmapped(f) == PairOf(f) \cap DOMAIN mTseitinVars = {}
\* C20: a formula that has a Tseitin mapping stays in the pool together with
\* its negation, also when no handle refers to it any more; a formula without
\* handles whose mapping is gone is deleted.
C20_TseitinPinning ==
    fault = "none" =>
        /\ \A f \in DOMAIN mTseitinVars : nodes[f].type # "FREE" /\ InPool(f)
        /\ \A f \in Live(nodes) \ Singletons :
              Unmapped(f) /\ PairOf(f) \cap MapRange(mTseitinVars) = {} => HandlesOn(f) >= 1

(***************************************************************************)
(* Properties of the Tseitin maps                                          *)
(***************************************************************************)
\* the pool state but for the usage counters
SamePublished(s, t) ==
    /\ s.mPool = t.mPool /\ s.mIdAllocator = t.mIdAllocator
    /\ s.freshBooleanVariables = t.freshBooleanVariables
    /\ s.mTseitinVars = t.mTseitinVars
    /\ s.mTseitinVarToFormula = t.mTseitinVarToFormula
    /\ \A a \in Addr : s.nodes[a].type = t.nodes[a].type
CanCreateTseitinVar(f) ==
    /\ MapHas(mTseitinVars, f) \/ freshBooleanVariables < Len(FreshNames)
    /\ mIdAllocator + 2 <= ChainIdLimit

TseitinIdempotent(f) ==
    LET r1 == createTseitinVar(ThePool, f)
        r2 == createTseitinVar(r1.st, f)
        g  == getTseitinVar(r2.st, f)
    IN /\ r1.st.fault = "none" /\ r2.st.fault = "none" /\ g.st.fault = "none"
       /\ r1.st.nodes[r1.ret].type = "BOOL"
       /\ ~MapHas(mTseitinVars, f) =>
             /\ nodes[r1.ret].type = "FREE"
             /\ r1.st.freshBooleanVariables = freshBooleanVariables + 1
       /\ MapHas(mTseitinVars, f) => SamePublished(r1.st, ThePool)
       /\ r2.ret = r1.ret /\ SamePublished(r2.st, r1.st)
       /\ g.ret = r1.ret /\ SamePublished(g.st, r1.st)

\* C21: the first createTseitinVar(f) returns a Boolean-variable formula p
\* that was not in the pool before; the next createTseitinVar(f) returns p
\* again, allocates no variable and publishes nothing, and getTseitinVar(f)
\* returns p; a formula that has its placeholder already gets that
\* placeholder, a live node.
C21_TseitinIdempotence ==
    Running => \A f \in Held : CanCreateTseitinVar(f) => TseitinIdempotent(f)

\* the same in the states where no entry of the maps refers to a deleted node
IdempotenceWithLiveEntries ==
    Running /\ TseitinMapped \subseteq Live(nodes) =>
        \A f \in Held : CanCreateTseitinVar(f) => TseitinIdempotent(f)

\* C22: getTseitinVar returns TRUE for a formula without placeholder and the
\* placeholder otherwise; it adds no entry to either Tseitin map, publishes
\* no node and allocates no variable.
C22_GetTseitinVarPure ==
    /\ Running => \A f \in Live(nodes) :
          LET g == getTseitinVar(ThePool, f)
          IN /\ ~MapHas(mTseitinVars, f) => g.ret = mpTrue
             /\ MapHas(mTseitinVars, f) => g.ret = mTseitinVars[f]
             /\ SamePublished(g.st, ThePool)
    /\ last.op = "getTseitinVar" => ~last.published

C22_Witness ==
    /\ last.op = "getTseitinVar" /\ last.ret = mpTrue /\ fault = "none"
    /\ \A x \in last.subs : ~MapHas(mTseitinVars, x) /\ x \notin Singletons
    /\ DOMAIN mTseitinVars # {}

\* the entries (f -> p) of the forward map whose two sides are live
LiveEntries ==
    {f \in DOMAIN mTseitinVars :
        /\ nodes[f].type # "FREE"
        /\ mTseitinVars[f] # NULL /\ nodes[mTseitinVars[f]].type # "FREE"}

\* C23: between pool operations an entry (f -> p) is in the maps only while
\* f and p both have an external handle; it is gone once either side has
\* none left.
C23_TseitinEntryRemoval ==
    fault = "none" => \A f \in LiveEntries :
        HandlesOn(f) >= 1 /\ HandlesOn(mTseitinVars[f]) >= 1

\* an entry is gone once neither side has a handle left
EntryGoneWhenBothUnreferenced ==
    fault = "none" => \A f \in LiveEntries :
        HandlesOn(f) >= 1 \/ HandlesOn(mTseitinVars[f]) >= 1
\* the same for the entries of base formulas other than TRUE and FALSE
BaseEntryGoneWhenBothUnreferenced ==
    fault = "none" => \A f \in LiveEntries \ Singletons :
        getBaseFormula(nodes, f) = f =>
            HandlesOn(f) >= 1 \/ HandlesOn(mTseitinVars[f]) >= 1

(***************************************************************************)
(* Properties of the FormulaPool in thread-safe mode                       *)
(***************************************************************************)
\* the steps that read or write mPool, mIdAllocator, a usage counter or one
\* of the Tseitin maps
AccessPcs ==
    {"add", "neg_reg", "ctor_reg", "free_body", "ctv_insert", "ctv_link", "ctv_ret", "gtv_find"}

\* C24: a thread that is about to read or write the lookup table, the id
\* allocator, a usage counter or a Tseitin map holds the pool lock.
C24_LockCoverage ==
    \A t \in Threads : threads[t].pc \in AccessPcs => mMutexPool = t

\* the operations that carry a lock guard are covered
GuardedCoverage ==
    \A t \in Threads :
        threads[t].pc \in {"add", "neg_reg", "ctor_reg", "free_body"} => mMutexPool = t

\* a node of the table whose id or whose negation is not there yet
Torn(a) ==
    \/ nodes[a].id = 0
    \/ /\ nodes[a].type \notin {"TRUE", "FALSE", "NOT"}
       /\ ~\E b \in mAsts : nodes[b].type = "NOT" /\ nodes[b].subs = {a} /\ nodes[b].id # 0

\* C25: a reader in another thread never comes upon a node that is in the
\* lookup table while its id or its negation is not initialised.
C25_NoTornState ==
    last.op \in {"print", "forallDo"} => \A a \in last.subs : ~Torn(a)

\* the readers that take the lock guard
NoTornStateUnderLock ==
    last.op = "forallDo" => \A a \in last.subs : ~Torn(a)

\* the steps at which a thread asks for the lock
LockPcs == {"add_lock", "neg_lock", "ctor_lock", "free_lock", "cascade_lock"}
LockDiscipline ==
    \A t \in Threads :
        /\ mMutexPool = t <=> threads[t].depth > 0
        /\ threads[t].pc = "idle" => threads[t].depth = 0
        /\ threads[t].depth > 0 /\ threads[t].pc \in LockPcs =>
              RecursiveLockGuard(mMutexPool, t)
\* the critical section of a thread, nested entries included, runs to its
\* end and gives the lock back (a thread waiting for another thread's lock
\* is not covered: the mutex promises no fairness between threads)
Completes ==
    \A t \in Threads : mMutexPool = t ~> (mMutexPool = NULL \/ fault # "none")

\* C26: a thread that holds the pool lock and enters the pool again (the
\* negation's handle registering during publication, the release of the
\* operand while a pair is deleted) is never refused the lock; the operation
\* runs to its end, and the lock is free when the outermost call returns.
C26_Reentrancy == []LockDiscipline /\ Completes

C26_Witness ==
    /\ fault = "none"
    /\ \E t \in Threads : threads[t].pc = "cascade_unlock" /\ threads[t].depth = 2
    /\ \E u \in Threads : threads[u].pc = "ctor_lock"

(***************************************************************************)
(* Properties of the FormulaPool: contract violations                      *)
(***************************************************************************)
\* the live contents whose base formula has usage counter 0
Unused == {a \in Live(nodes) :
              /\ ~Dangling(ThePool, getBaseFormula(nodes, a))
              /\ nodes[getBaseFormula(nodes, a)].usages = 0}
\* a release of a stops the process and leaves every member as it was
HaltsUntouched(a) == free(ThePool, a) = Fault(ThePool, "assert")
\* the step that calls free on a content of Unused
FatalStep ==
    \A a \in Unused :
        last'.op \in {"free", "destroy"} /\ last'.subs = {a} /\ last # last' =>
            /\ fault' = "assert"
            /\ nodes' = nodes /\ mPool' = mPool /\ mIdAllocator' = mIdAllocator
            /\ mTseitinVars' = mTseitinVars
            /\ mTseitinVarToFormula' = mTseitinVarToFormula

\* C27: a release called on a content whose base formula has usage counter 0
\* stops at the assertion of free: the process is halted (fault "assert") and
\* the counter, the lookup table, the allocator and both Tseitin maps are
\* exactly as they were before the call.
C27_ContractViolationFatal ==
    /\ [](Running => \A a \in Unused : HaltsUntouched(a))
    /\ [][Running => FatalStep]_vars

C27_Witness ==
    /\ fault = "assert"
    /\ last.op = "free"
    /\ \E a \in Unused : last.subs = {a} /\ a \in mPool /\ MapHas(mTseitinVars, a)


(***************************************************************************)
(* Properties of the n-ary constructor: empty and one-operand requests     *)
(***************************************************************************)
\* the answer p, with the pool as it is
Answer(p) == PoolState(nodes, mAsts, mIdAllocator, p)

\* C28: an n-ary request (AND, OR, XOR, IFF) with an empty operand set, and
\* the multiset constructor with an empty multiset, return FALSE whatever the
\* connective, and publish nothing: table, heap and allocator stay as they are.
C28_ExplicitEmpty ==
    /\ Idle => \A type \in NaryTypes :
                   createAst(nodes, mAsts, mIdAllocator, type, {}) = Answer(mpFalse)
    /\ Idle => createMulti(nodes, mAsts, mIdAllocator, {}) = Answer(mpFalse)
    /\ last.op = "nary" /\ last.subs = {} => last.ret = mpFalse /\ ~last.published

C28_Witness ==
    /\ last.op = "nary" /\ last.type = "AND" /\ last.subs = {}
    /\ last.ret = mpFalse
    /\ \E a \in mAsts : nodes[a].type = "OR"


\* the connectives that hand a single operand back
Unwrapping == {"AND", "OR", "XOR"}

\* C29: when one operand x is left (a request with the one operand x, which is
\* what AND(a, a) and OR(a, a) are once the operands form a set, or TRUE and x
\* under AND, FALSE and x under OR), AND, OR and XOR return x itself and the
\* pool is as it was: no node is published and no id is used.
C29_SingletonUnwrapping ==
    /\ Idle => \A type \in Unwrapping : \A a \in Live(nodes) :
                   /\ createAst(nodes, mAsts, mIdAllocator, type, {a}) = Answer(a)
                   /\ createUnary(ThePool, type, a) = [st |-> ThePool, ret |-> a]
    /\ Idle => \A a \in Live(nodes) \ {mpTrue, mpFalse} :
                   /\ nodes[a].type # "AND" =>
                         createAst(nodes, mAsts, mIdAllocator, "AND", {mpTrue, a}) = Answer(a)
                   /\ nodes[a].type # "OR" =>
                         createAst(nodes, mAsts, mIdAllocator, "OR", {mpFalse, a}) = Answer(a)
    /\ last.op = "nary" /\ last.type \in Unwrapping /\ Cardinality(last.subs) = 1 =>
          last.subs = {last.ret} /\ ~last.published

C29_Witness ==
    /\ last.op = "nary" /\ last.type = "XOR"
    /\ last.subs = {last.ret}
    /\ nodes[last.ret].type = "AND"


(***************************************************************************)
(* Properties of the FormulaPool: usage accounting                         *)
(***************************************************************************)
\* what one more, or one fewer, use of the base formula of a leaves behind
Counted(a, d) ==
    [ThePool EXCEPT !.nodes[getBaseFormula(nodes, a)].usages = @ + d]
OnlyBaseCounter ==
    Running => \A a \in Held :
        /\ reg(ThePool, a) = Counted(a, 1)
        /\ nodes[getBaseFormula(nodes, a)].usages > 2 => free(ThePool, a) = Counted(a, 0 - 1)

C31_QuantifierElision ==
    /\ Running => \A type \in QuantifierTypes : \A a \in Held :
                      createQuantifier(ThePool, type, <<>>, a) = [st |-> ThePool, ret |-> a]
    /\ last.op = "quantifier" /\ fault = "none" =>
          IF last.var = "" THEN last.subs = {last.ret} /\ ~last.published
          ELSE /\ last.ret \in mPool
               /\ nodes[last.ret].type = last.type
               /\ nodes[last.ret].subs = last.subs
               /\ nodes[last.ret].var = last.var
    /\ fault = "none" =>
          \A a, b \in mPool :
              nodes[a].type \in QuantifierTypes /\ SameShape(nodes[a], nodes[b]) => a = b

C31_Witness ==
    /\ last.op = "quantifier" /\ fault = "none"
    /\ last.var = "" /\ last.type = "FORALL"
    /\ nodes[last.ret].type = "EXISTS" /\ nodes[last.ret].var = "x,y,"



(***************************************************************************)
(* Tree (Tree.h, the USE_DENSE_MEMORY variant): nodes in a vector, linked  *)
(* by indices, MAXINT for "none"                                           *)
(***************************************************************************)
MaxTreeNodes == 5                     \* entries of Tree::nodes

Node(id, parent, depth) ==
    [id |-> id, parent |-> parent, previousSibling |-> MAXINT, nextSibling |-> MAXINT,
     firstChild |-> MAXINT, lastChild |-> MAXINT, depth |-> depth]

size(n) == Cardinality(DOMAIN n)
emplace_back(n, x) == [i \in 0 .. size(n) |-> IF i < size(n) THEN n[i] ELSE x]

TheTree == [nodes |-> treeNodes, emptyNodes |-> emptyNodes, fault |-> fault]

\* ---- Tree::newNode: the res declared in the reuse branch hides the outer one
newNode(t, parent, depth) ==
    LET fresh == t.emptyNodes = MAXINT
        inner == t.emptyNodes
        n1  == IF fresh THEN emplace_back(t.nodes, Node(size(t.nodes), parent, depth))
               ELSE [t.nodes EXCEPT ![inner].parent = parent, ![inner].depth = depth,
                                    ![inner].nextSibling = MAXINT]
        e1  == IF fresh THEN MAXINT ELSE t.nodes[inner].nextSibling
        res == IF fresh THEN size(t.nodes) ELSE 0
        lc  == n1[parent].lastChild
        n2  == IF parent = MAXINT THEN n1
               ELSE IF lc # MAXINT
                    THEN [n1 EXCEPT ![lc].nextSibling = res, ![res].previousSibling = lc,
                                    ![parent].lastChild = res]
                    ELSE [n1 EXCEPT ![parent].firstChild = res, ![parent].lastChild = res]
    IN [t |-> [t EXCEPT !.nodes = n2, !.emptyNodes = e1], ret |-> res]

\* ---- Tree::eraseNode
eraseNode(t, id) ==
    IF t.nodes[id].firstChild # MAXINT THEN [t EXCEPT !.fault = "assert"]
    ELSE [t EXCEPT !.nodes = [t.nodes EXCEPT ![id].nextSibling = t.emptyNodes,
                                             ![id].previousSibling = MAXINT]]

\* ---- Tree::eraseChildren(std::size_t)
RECURSIVE eraseChildrenFrom(_, _)
eraseChildrenFrom(t, cur) ==
    IF cur = MAXINT \/ t.fault # "none" THEN t
    ELSE eraseChildrenFrom(eraseNode(t, cur), t.nodes[cur].nextSibling)
eraseChildren(t, id) ==
    IF t.nodes[id].firstChild = MAXINT THEN t
    ELSE LET t1 == eraseChildrenFrom(t, t.nodes[id].firstChild)
         IN IF t1.fault # "none" THEN t1
            ELSE [t1 EXCEPT !.nodes = [t1.nodes EXCEPT ![id].firstChild = MAXINT,
                                                       ![id].lastChild = MAXINT]]

\* ---- PreorderIterator::next
RECURSIVE nextUp(_, _)
nextUp(n, cur) ==
    IF n[cur].nextSibling # MAXINT THEN n[cur].nextSibling
    ELSE IF n[cur].parent = MAXINT THEN MAXINT
    ELSE nextUp(n, n[cur].parent)
next(n, cur) ==
    IF cur = MAXINT THEN 0
    ELSE IF n[cur].firstChild = MAXINT THEN nextUp(n, cur)
    ELSE n[cur].firstChild

\* ---- Tree::clear
clear(t) == [t EXCEPT !.nodes = <<>>, !.emptyNodes = MAXINT]

\* ---- Tree::erase: the element is unlinked from its siblings only
erase(t, id) ==
    LET t1 == eraseChildren(t, id)
        position == next(t1.nodes, id)
        nx == t1.nodes[id].nextSibling
        pv == t1.nodes[id].previousSibling
        n2 == IF nx # MAXINT THEN [t1.nodes EXCEPT ![nx].previousSibling = pv] ELSE t1.nodes
        n3 == IF pv # MAXINT THEN [n2 EXCEPT ![pv].nextSibling = nx] ELSE n2
    IN IF id = 0
       \* clear(), then ++position reads nodes[0] of the emptied vector
       THEN [t |-> [clear(t) EXCEPT !.fault = "out-of-bounds"], ret |-> MAXINT]
       ELSE IF t1.fault # "none" THEN [t |-> t1, ret |-> MAXINT]
       ELSE [t |-> eraseNode([t1 EXCEPT !.nodes = n3], id), ret |-> position]

\* ---- the traversals, each at most Fuel steps long
Fuel == MaxTreeNodes + 1
Range(q) == {q[i] : i \in DOMAIN q}
RECURSIVE PreorderFrom(_, _, _)
PreorderFrom(n, cur, fuel) ==
    IF cur = MAXINT \/ fuel = 0 THEN <<>>
    ELSE <<cur>> \o PreorderFrom(n, next(n, cur), fuel - 1)
\* begin_preorder() .. end_preorder()
Preorder(n) == PreorderFrom(n, 0, Fuel)

\* begin_children(it) .. end: ChildrenIterator::next
RECURSIVE ChildrenFrom(_, _, _)
ChildrenFrom(n, cur, fuel) ==
    IF cur = MAXINT \/ fuel = 0 THEN <<>>
    ELSE <<cur>> \o ChildrenFrom(n, n[cur].nextSibling, fuel - 1)
Children(n, base) == ChildrenFrom(n, n[base].firstChild, Fuel)

\* begin_leaf() and LeafIterator::next
RECURSIVE begin_leaf_from(_, _)
begin_leaf_from(n, cur) ==
    IF n[cur].firstChild = MAXINT THEN cur ELSE begin_leaf_from(n, n[cur].firstChild)
begin_leaf(n) == begin_leaf_from(n, 0)
RECURSIVE LeafSeek(_, _, _, _)
LeafSeek(n, it, target, fuel) ==
    IF it = MAXINT \/ fuel = 0 THEN MAXINT
    ELSE IF n[it].depth = target THEN it
    ELSE LeafSeek(n, next(n, it), target, fuel - 1)
LeafNext(n, cur) == LeafSeek(n, next(n, cur), n[cur].depth, Fuel)
RECURSIVE LeavesFrom(_, _, _)
LeavesFrom(n, cur, fuel) ==
    IF cur = MAXINT \/ fuel = 0 THEN <<>>
    ELSE <<cur>> \o LeavesFrom(n, LeafNext(n, cur), fuel - 1)
Leaves(n) == LeavesFrom(n, begin_leaf(n), Fuel)

\* ---- what the client knows of an element: its subtree and its successor
RECURSIVE Below(_, _, _)
Below(n, id, j) ==
    IF j = MAXINT THEN FALSE
    ELSE IF j = id THEN TRUE
    ELSE Below(n, id, n[j].parent)
Subtree(n, id) == {j \in DOMAIN n : Below(n, id, j)}
Followers(n, id) ==
    LET pre == Preorder(n)
        at  == CHOOSE i \in DOMAIN pre : pre[i] = id
    IN SelectSeq(SubSeq(pre, at + 1, Len(pre)), LAMBDA j : j \notin Subtree(n, id))
Successor(n, id) ==
    IF Followers(n, id) = <<>> THEN MAXINT ELSE Head(Followers(n, id))

TreeRequest(op, position) ==
    [op |-> op, type |-> "tree", subs |-> {}, var |-> "none", ret |-> MAXINT,
     published |-> FALSE, position |-> position, parent |-> MAXINT, expected |-> MAXINT]

SetTree(t) ==
    /\ treeNodes' = t.nodes
    /\ emptyNodes' = t.emptyNodes
    /\ fault' = t.fault
TreeFrame ==
    UNCHANGED <<nodes, mAsts, mIdAllocator, mPool, mTseitinVars, mTseitinVarToFormula,
                handles, freshBooleanVariables, mtVars, cadVars>>

\* the elements an iteration from begin() hands to the client
Positions == IF treeNodes = <<>> THEN {} ELSE Range(Preorder(treeNodes))

\* ---- Tree::setRoot
TreeSetRoot ==
    /\ fault = "none"
    /\ treeNodes = <<>>
    /\ treeNodes' = emplace_back(treeNodes, Node(0, MAXINT, 0))
    /\ last' = TreeRequest("setRoot", MAXINT)
    /\ UNCHANGED <<emptyNodes, fault>>
    /\ TreeFrame

\* ---- Tree::insert(position, data)
TreeInsert(position) ==
    /\ fault = "none"
    /\ size(treeNodes) < MaxTreeNodes
    /\ LET r == newNode(TheTree, position, treeNodes[position].depth + 1)
       IN /\ SetTree(r.t)
          /\ last' = [TreeRequest("insert", position) EXCEPT !.ret = r.ret]
    /\ TreeFrame

\* ---- Tree::erase(position)
TreeErase(position) ==
    /\ fault = "none"
    /\ LET r == erase(TheTree, position)
       IN /\ SetTree(r.t)
          /\ last' = [TreeRequest("erase", position) EXCEPT
                         !.ret = r.ret,
                         !.subs = Subtree(treeNodes, position),
                         !.parent = treeNodes[position].parent,
                         !.expected = Successor(treeNodes, position)]
    /\ TreeFrame

NextTree ==
    \/ TreeSetRoot
    \/ \E position \in Positions : TreeInsert(position)
    \/ \E position \in Positions : TreeErase(position)
SpecTree == Init /\ [][NextTree]_vars

\* C32: after erase(position) no pre-order, children or leaf traversal visits
\* the erased element or one of its descendants, the parent's first/last child
\* and the links of the remaining elements refer to remaining elements only, an
\* insert under the same parent appends after the last remaining child, and the
\* returned iterator is the element that followed the subtree in pre-order.
C32_EraseRemovesSubtree ==
    (last.op = "erase" /\ fault = "none") =>
        LET n == treeNodes
            gone == last.subs
            rest == DOMAIN n \ gone
            app  == newNode(TheTree, last.parent, n[last.parent].depth + 1)
        IN /\ Range(Preorder(n)) \cap gone = {}
           /\ \A q \in rest : Range(Children(n, q)) \cap gone = {}
           /\ Range(Leaves(n)) \cap gone = {}
           /\ n[last.parent].firstChild \notin gone
           /\ n[last.parent].lastChild \notin gone
           /\ \A q \in rest : n[q].nextSibling \notin gone /\ n[q].previousSibling \notin gone
           /\ app.t.nodes[app.ret].previousSibling = n[last.parent].lastChild
           /\ app.t.nodes[app.ret].previousSibling \notin gone
           /\ last.ret = last.expected

\* C33: in every state the forward map and the reverse map describe one
\* one-to-one relation: the placeholder p of every forward entry (f, p) is a key
\* of the reverse map and its stored reference designates the entry of f, every
\* reverse entry designates an existing forward entry, and no placeholder is
\* assigned to two formulas.
C33_TseitinMapsConsistent ==
    fault = "none" =>
        /\ \A f \in DOMAIN mTseitinVars :
              mTseitinVars[f] # NULL =>
                 /\ MapHas(mTseitinVarToFormula, mTseitinVars[f])
                 /\ mTseitinVarToFormula[mTseitinVars[f]] = f
        /\ \A p \in DOMAIN mTseitinVarToFormula :
              MapHas(mTseitinVars, mTseitinVarToFormula[p])
        /\ \A f, g \in DOMAIN mTseitinVars :
              (mTseitinVars[f] # NULL /\ mTseitinVars[f] = mTseitinVars[g]) => f = g

\* C34: in every state the id of each live node is strictly greater than the id
\* of each of its direct sub-formulas, so the operands spliced in for a nested
\* AND/OR node of a request sort before the position of that node: the elements
\* after the position are the same with and without them.
C34_OperandIdsSmaller ==
    /\ \A a \in Live(nodes) : \A s \in nodes[a].subs :
          s \in Live(nodes) /\ nodes[s].id < nodes[a].id
    /\ Idle =>
          \A S \in OperandSets : \A iter \in S :
             nodes[iter].type \in {"AND", "OR"} =>
                LET spliced == (S \cup nodes[iter].subs) \ {iter}
                IN {b \in spliced : AstLess(nodes, iter, b)} = {b \in S : AstLess(nodes, iter, b)}
\* an AND request with a nested AND node and a further operand was answered
\* with an AND node over the spliced operands
C34_Witness ==
    /\ last.op = "nary" /\ last.type = "AND"
    /\ Cardinality(last.subs) > 1
    /\ \E x \in last.subs : nodes[x].type = "AND" /\ nodes[x].subs \subseteq nodes[last.ret].subs
    /\ nodes[last.ret].type = "AND"
    /\ \A s \in nodes[last.ret].subs : nodes[s].id < nodes[last.ret].id

\* C35: in thread-safe mode a node that a construction request found by lookup
\* is not deleted by a release of another thread before the handle of the
\* request has registered its use: between the return of add and the reg of
\* the Formula under construction the node stays live.
C35_LookupRegistrationRaceFree ==
    \A t \in Threads :
       (threads[t].op = "variable" /\ threads[t].pc \in {"ctor_lock", "ctor_reg"}) =>
           nodes[threads[t].ret].type # "FREE"

\* C36: after any sequence of createTseitinVar, registrations and releases
\* every key and every value stored in the two Tseitin maps is a live node.
C36_NoDanglingTseitinEntries ==
    fault = "none" =>
        /\ \A f \in DOMAIN mTseitinVars :
              /\ f \in Live(nodes)
              /\ mTseitinVars[f] # NULL => mTseitinVars[f] \in Live(nodes)
        /\ \A p \in DOMAIN mTseitinVarToFormula :
              /\ p \in Live(nodes)
              /\ mTseitinVarToFormula[p] \in Live(nodes)

\* the formulas other than TRUE and FALSE that an entry of the maps names
Mapped ==
    (DOMAIN mTseitinVars \cup DOMAIN mTseitinVarToFormula
        \cup {mTseitinVars[f] : f \in DOMAIN mTseitinVars}) \ Singletons

\* C37: once all handles on a formula f and on its placeholder p are released,
\* in either order, the entry, p and f with their negations are gone from the
\* maps and from the pool, for f of the base and of the non-base polarity: no
\* entry is left whose two sides are without a handle, and a published pair
\* without a handle is one that an entry names.
C37_NoTseitinLeak ==
    fault = "none" =>
        /\ \A f \in DOMAIN mTseitinVars \ Singletons :
              mTseitinVars[f] # NULL =>
                 HandlesOn(f) >= 1 \/ HandlesOn(mTseitinVars[f]) >= 1
        /\ \A n \in mPool \ Singletons :
              HandlesOn(n) >= 1 \/ n \in Mapped \/ nodes[n].neg \in Mapped

\* the live nodes that hold x as an operand, the NOT node of x's own pair aside
Holders(h, x) == {p \in Addr : h[p].type # "FREE" /\ x \in h[p].subs /\ p # h[x].neg}
\* the holders of either polarity of the pair with base b
PairHolders(h, b) == Holders(h, b) \cup Holders(h, h[b].neg)

\* C38: every direct sub-formula of a live node is live; releasing the last
\* external handle of a formula that is still an operand of a live node does
\* not delete it; and a release that deletes a parent releases each operand of
\* the parent exactly once, deleting the operands that have no other holder.
C38_NoDanglingSubformula ==
    fault = "none" =>
        /\ \A a \in Live(nodes) : nodes[a].subs \subseteq Live(nodes)
        /\ Idle => \A a \in Held :
              LET st   == free(ThePool, a)
                  gone == {q \in Live(nodes) : st.nodes[q].type = "FREE"}
              IN st.fault = "none" =>
                   /\ Holders(nodes, a) # {} =>
                         a \notin gone /\ Holders(nodes, a) \cap gone = {}
                   /\ \A q \in gone : \A s \in nodes[q].subs :
                         LET b == getBaseFormula(nodes, s)
                             direct == IF getBaseFormula(nodes, a) = b THEN 1 ELSE 0
                         IN IF b \in gone
                            THEN /\ HandlesOn(b) = direct
                                 /\ PairHolders(nodes, b) \subseteq gone
                            ELSE st.nodes[b].usages = nodes[b].usages - direct
                                    - Cardinality(PairHolders(nodes, b) \cap gone)
\* the last handle of the body of a live quantified formula has been released
\* and the body is still there
C38_Witness ==
    /\ last.op = "destroy" /\ fault = "none"
    /\ \E q \in Live(nodes) :
          /\ nodes[q].type \in QuantifierTypes
          /\ \E s \in nodes[q].subs \cap last.subs :
                HandlesOn(s) = 0 /\ s \in Live(nodes)

\* C39: when every release is the release of a handle registered before, the
\* assertion mUsages > 0 at the start of free never fails, neither for the
\* handle a client destroys nor in the releases nested in a deletion: no run
\* ends in a failed assertion, and every handle a client holds is on a live
\* content whose base formula has a positive counter.
C39_UsageAssertionHolds ==
    /\ fault # "assert"
    /\ (Idle /\ fault = "none") => \A a \in Held :
          /\ ~Dangling(ThePool, a)
          /\ nodes[getBaseFormula(nodes, a)].usages > 0
          /\ free(ThePool, a).fault # "assert"
\* the last handle of a formula with a placeholder was destroyed: the release
\* deleted the placeholder, the formula and their negations, each deleted NOT
\* node releasing its operand on the way
C39_Witness ==
    /\ last.op = "destroy" /\ fault = "none"
    /\ \A x \in last.subs : nodes[x].type = "FREE"
    /\ freshBooleanVariables > 0
    /\ DOMAIN mTseitinVars = {}
    /\ mPool = Singletons

\* ======================================================================
\* CAD::SampleSet (SampleSet.tpp): a sorted list of real algebraic numbers
\* with three views of the same elements: the order of insertion, the
\* numeric/interval buckets and the root/non-root buckets.
\* A sample is the object a pointer of the containers points to; insert
\* allocates one object per stored value.
\* ======================================================================
MaxValue == 3
SampleValues == 1 .. MaxValue

RealAlgebraicNumber(value, isRoot, isNumeric) ==
    [value |-> value, isRoot |-> isRoot, isNumeric |-> isNumeric]
RealAlgebraicNumberNR(value, isRoot) == RealAlgebraicNumber(value, isRoot, TRUE)
Numbers ==
    {RealAlgebraicNumber(v, r, n) : v \in SampleValues, r \in BOOLEAN, n \in BOOLEAN}

\* carl::less / carl::Less and carl::Equal on pointers: by the value pointed to
less(a, b) == a.value < b.value
Equal(a, b) == a.value = b.value

\* iterators of a container are the indices 1 .. Len, end() is Len + 1
end(seq) == Len(seq) + 1
lower_bound(seq, r) ==
    IF \E i \in DOMAIN seq : ~less(seq[i], r)
    THEN CHOOSE i \in DOMAIN seq :
            ~less(seq[i], r) /\ \A j \in 1 .. i - 1 : less(seq[j], r)
    ELSE end(seq)
find(seq, r) ==
    IF \E i \in DOMAIN seq : seq[i] = r
    THEN CHOOSE i \in DOMAIN seq : seq[i] = r /\ \A j \in 1 .. i - 1 : seq[j] # r
    ELSE end(seq)
eraseAt(seq, pos) == SubSeq(seq, 1, pos - 1) \o SubSeq(seq, pos + 1, Len(seq))
insertAt(seq, pos, x) == SubSeq(seq, 1, pos - 1) \o <<x>> \o SubSeq(seq, pos, Len(seq))
pop_front(seq) == Tail(seq)

TheSampleSet ==
    [samples |-> samples, queue |-> queue, NRqueue |-> NRqueue, IRqueue |-> IRqueue,
     rootQueue |-> rootQueue, nonRootQueue |-> nonRootQueue, fault |-> fault]

\* SampleSet::insert(r): only the numeric case has a body; for an interval
\* number the function ends without a return statement
insert_NoEqualTest(s, r) ==
    IF r.isNumeric
    THEN LET rNR == RealAlgebraicNumberNR(r.value, r.isRoot)
             position == IF s.samples # <<>> THEN lower_bound(s.samples, rNR) ELSE 1
             s1 == [s EXCEPT !.NRqueue = Append(@, rNR)]
             s2 == IF rNR.isRoot THEN [s1 EXCEPT !.rootQueue = Append(@, rNR)]
                   ELSE [s1 EXCEPT !.nonRootQueue = Append(@, rNR)]
             s3 == [s2 EXCEPT !.queue = Append(@, rNR)]
         IN [s |-> [s3 EXCEPT !.samples = insertAt(@, position, rNR)],
             ret |-> <<position, TRUE>>]
    ELSE [s |-> [s EXCEPT !.fault = "no-return"], ret |-> <<0, FALSE>>]
insert(s, r) ==
    IF r.isNumeric
    THEN LET rNR == RealAlgebraicNumberNR(r.value, r.isRoot)
             position == IF s.samples # <<>> THEN lower_bound(s.samples, rNR) ELSE 1
             s1 == [s EXCEPT !.NRqueue = Append(@, rNR)]
             s2 == IF rNR.isRoot THEN [s1 EXCEPT !.rootQueue = Append(@, rNR)]
                   ELSE [s1 EXCEPT !.nonRootQueue = Append(@, rNR)]
             s3 == [s2 EXCEPT !.queue = Append(@, rNR)]
         IN IF /\ s.samples # <<>>
               /\ position # end(s.samples)
               /\ Equal(s.samples[position], rNR)
            THEN [s |-> s, ret |-> <<position, FALSE>>]
            ELSE [s |-> [s3 EXCEPT !.samples = insertAt(@, position, rNR)],
                  ret |-> <<position, TRUE>>]
    ELSE [s |-> [s EXCEPT !.fault = "no-return"], ret |-> <<0, FALSE>>]

\* SampleSet::removeFromNonrootRoot / removeFromQueue / removeFromNRIR:
\* std::find by pointer, assert that it was found, erase
removeFromNonrootRoot(s, r) ==
    IF s.fault # "none" THEN s
    ELSE IF r.isRoot
    THEN LET pos == find(s.rootQueue, r)
         IN IF pos = end(s.rootQueue) THEN [s EXCEPT !.fault = "assert"]
            ELSE [s EXCEPT !.rootQueue = eraseAt(@, pos)]
    ELSE LET pos == find(s.nonRootQueue, r)
         IN IF pos = end(s.nonRootQueue) THEN [s EXCEPT !.fault = "assert"]
            ELSE [s EXCEPT !.nonRootQueue = eraseAt(@, pos)]
removeFromQueue(s, r) ==
    IF s.fault # "none" THEN s
    ELSE LET pos == find(s.queue, r)
         IN IF pos = end(s.queue) THEN [s EXCEPT !.fault = "assert"]
            ELSE [s EXCEPT !.queue = eraseAt(@, pos)]
removeFromNRIR(s, r) ==
    IF s.fault # "none" THEN s
    ELSE IF r.isNumeric
    THEN LET pos == find(s.NRqueue, r)
         IN IF pos = end(s.NRqueue) THEN [s EXCEPT !.fault = "assert"]
            ELSE [s EXCEPT !.NRqueue = eraseAt(@, pos)]
    ELSE LET pos == find(s.IRqueue, r)
         IN IF pos = end(s.IRqueue) THEN [s EXCEPT !.fault = "assert"]
            ELSE [s EXCEPT !.IRqueue = eraseAt(@, pos)]

\* SampleSet::remove(position)
remove(s, position) ==
    IF position = end(s.samples) THEN [s EXCEPT !.fault = "assert"]
    ELSE LET r == s.samples[position]
             s1 == removeFromNonrootRoot(removeFromNRIR(removeFromQueue(s, r), r), r)
         IN IF s1.fault # "none" THEN s1
            ELSE [s1 EXCEPT !.samples = eraseAt(@, position)]

\* erase the element lower_bound finds for r, then empty the bucket r came
\* from and take r out of the two other views (the common body of the pops);
\* front() and pop_front() of an empty container are undefined
popFrom(s, bucket, first, second) ==
    IF s[bucket] = <<>> THEN [s EXCEPT !.fault = "out-of-bounds"]
    ELSE LET r == s[bucket][1]
             position == lower_bound(s.samples, r)
         IN IF position = end(s.samples) THEN [s EXCEPT !.fault = "assert"]
            ELSE LET s1 == [s EXCEPT !.samples = eraseAt(@, position),
                                     ![bucket] = pop_front(@)]
                 IN IF second = "removeFromNonrootRoot"
                    THEN removeFromNonrootRoot(
                            IF first = "removeFromNRIR" THEN removeFromNRIR(s1, r)
                            ELSE removeFromQueue(s1, r), r)
                    ELSE removeFromQueue(removeFromNRIR(s1, r), r)

\* SampleSet::pop: the oldest sample (next() is queue.front())
pop(s) ==
    IF s.samples = <<>> THEN s
    ELSE popFrom(s, "queue", "removeFromNRIR", "removeFromNonrootRoot")
\* SampleSet::popNR: nextNR() is the front of NRqueue, of IRqueue if that is empty
popNR(s) ==
    IF s.samples = <<>> THEN s
    ELSE popFrom(s, IF s.NRqueue = <<>> THEN "IRqueue" ELSE "NRqueue",
                 "removeFromQueue", "removeFromNonrootRoot")
\* SampleSet::popNonroot: nextNonRoot() is the front of nonRootQueue, of
\* rootQueue if that is empty
popNonroot(s) ==
    IF s.samples = <<>> THEN s
    ELSE popFrom(s, IF s.nonRootQueue = <<>> THEN "rootQueue" ELSE "nonRootQueue",
                 "removeFromNRIR", "removeFromQueue")
\* SampleSet::popRoot: nextRoot() is the front of rootQueue, of nonRootQueue
\* if that is empty
popRoot(s) ==
    IF s.samples = <<>> THEN s
    ELSE popFrom(s, IF s.rootQueue = <<>> THEN "nonRootQueue" ELSE "rootQueue",
                 "removeFromNRIR", "removeFromQueue")

SampleRequest(op, arg) ==
    [op |-> op, type |-> "sample", subs |-> {}, var |-> "none", ret |-> <<0, FALSE>>,
     published |-> FALSE, arg |-> arg]
SetSampleSet(s) ==
    /\ samples' = s.samples
    /\ queue' = s.queue
    /\ NRqueue' = s.NRqueue
    /\ IRqueue' = s.IRqueue
    /\ rootQueue' = s.rootQueue
    /\ nonRootQueue' = s.nonRootQueue
    /\ fault' = s.fault
SampleFrame ==
    UNCHANGED <<nodes, mAsts, mIdAllocator, mPool, mTseitinVars, mTseitinVarToFormula,
                handles, freshBooleanVariables, mtVars, treeVars>>

SampleInsert(r) ==
    /\ fault = "none"
    /\ LET x == insert(TheSampleSet, r)
       IN /\ SetSampleSet(x.s)
          /\ last' = [SampleRequest("insert", r) EXCEPT !.ret = x.ret]
    /\ SampleFrame
SampleRemove(position) ==
    /\ fault = "none"
    /\ SetSampleSet(remove(TheSampleSet, position))
    /\ last' = SampleRequest("remove", position)
    /\ SampleFrame
SamplePop ==
    /\ fault = "none"
    /\ SetSampleSet(pop(TheSampleSet))
    /\ last' = SampleRequest("pop", 0)
    /\ SampleFrame
SamplePopNR ==
    /\ fault = "none"
    /\ SetSampleSet(popNR(TheSampleSet))
    /\ last' = SampleRequest("popNR", 0)
    /\ SampleFrame
SamplePopNonroot ==
    /\ fault = "none"
    /\ SetSampleSet(popNonroot(TheSampleSet))
    /\ last' = SampleRequest("popNonroot", 0)
    /\ SampleFrame
SamplePopRoot ==
    /\ fault = "none"
    /\ SetSampleSet(popRoot(TheSampleSet))
    /\ last' = SampleRequest("popRoot", 0)
    /\ SampleFrame

NextSampleSet ==
    \/ \E r \in Numbers : SampleInsert(r)
    \/ \E position \in DOMAIN samples : SampleRemove(position)
    \/ SamplePop
    \/ SamplePopNR
    \/ SamplePopNonroot
    \/ SamplePopRoot
SpecSampleSet == Init /\ [][NextSampleSet]_vars

\* the sequence holds exactly the elements of the sample list, each once
ExactlyTheSamples(seq) ==
    /\ Len(seq) = Len(samples)
    /\ {seq[i] : i \in DOMAIN seq} = {samples[i] : i \in DOMAIN samples}

====
